---------------------------- MODULE Spec2Model ----------------------------
(***************************************************************************)
(* Keybinding resolution and dispatch engine of                            *)
(* src/vs/platform/keybinding/common/abstractKeybindingService.ts          *)
(* (AbstractKeybindingService) with the mouse / selection bindings of      *)
(* src/vs/base/common/mouseButtons.ts.                                     *)
(*                                                                         *)
(* A nullable value (T | null, T | undefined) is a sequence of length at   *)
(* most one: Null is <<>>, Some(x) is <<x>>.                               *)
(***************************************************************************)
EXTENDS Integers, Sequences, FiniteSets, TLC

Null == <<>>
Some(x) == <<x>>
Val(o) == o[1]

(***************************************************************************)
(* Bounds of the model.                                                    *)
(***************************************************************************)
\* The time since a chord was entered is followed up to MaxTime (ms).
MaxTime == 6500
\* Largest click count of a mouse event (1 = single, 2 = double click).
MaxTimes == 2
\* completeSelection is followed while it has invoked the executor fewer than
\* MaxRuns times since the last press that started a selection.
MaxRuns == 2
\* The futures of at most MaxInFlight executor calls are followed at a time.
MaxInFlight == 1

(***************************************************************************)
(* Program constants.                                                      *)
(***************************************************************************)
\* "if (Date.now() - chordEnterTime > 5000)"
ChordTimeout == 5000
\* "this._currentChordChecker.cancelAndSet(() => {...}, 500)"
ChordCheckInterval == 500
\* Granularity of the modelled wall clock: half a checker interval, so that a
\* key can arrive between two ticks of the checker.
ClockStep == ChordCheckInterval \div 2

\* enum MouseButton { Left = 0, Middle, Right }
MouseButtonLeft == 0
MouseButtonMiddle == 1
MouseButtonRight == 2

\* const uiButtonToStr = ['LMB', 'MMB', 'RMB'];
uiButtonToStr == <<"LMB", "MMB", "RMB">>

\* MouseButtonUtils.toString: uiButtonToStr[button] (a 0-based index).
MouseButtonToString(button) == uiButtonToStr[button + 1]

(***************************************************************************)
(* Binding model: MouseBinding and SelectionBinding (BaseMouseBinding).    *)
(***************************************************************************)
\* new MouseBinding(ctrlKey, shiftKey, altKey, metaKey, button, times)
MouseBinding(ctrlKey, shiftKey, altKey, metaKey, button, times) ==
    [type |-> "mouse", ctrlKey |-> ctrlKey, shiftKey |-> shiftKey, altKey |-> altKey,
     metaKey |-> metaKey, button |-> button, times |-> Some(times)]

\* new SelectionBinding(ctrlKey, shiftKey, altKey, metaKey, button): no click count.
SelectionBinding(ctrlKey, shiftKey, altKey, metaKey, button) ==
    [type |-> "selection", ctrlKey |-> ctrlKey, shiftKey |-> shiftKey, altKey |-> altKey,
     metaKey |-> metaKey, button |-> button, times |-> Null]

\* get dispatchPrefix(): 'mouse' for MouseBinding, 'selection' for SelectionBinding.
DispatchPrefix(binding) == IF binding.type = "mouse" THEN "mouse" ELSE "selection"

\* The modifier part shared by every dispatch string and label.
Modifiers(b, ctrl, shift, alt, meta) ==
    (IF b.ctrlKey THEN ctrl ELSE "") \o (IF b.shiftKey THEN shift ELSE "")
        \o (IF b.altKey THEN alt ELSE "") \o (IF b.metaKey THEN meta ELSE "")

\* getDispatchParts as it would be without the prefix (as in the older
\* ResolvedSelectionBinding).
MouseDispatchStringNoPrefix(binding) ==
    Modifiers(binding, "ctrl+", "shift+", "alt+", "meta+") \o MouseButtonToString(binding.button)

\* ResolvedMouseBinding.getDispatchParts()[0]: prefix, a space, the held
\* modifiers in the order ctrl, shift, alt, meta, the button. The click count
\* (binding.times) is not written.
MouseDispatchString(binding) ==
    DispatchPrefix(binding) \o " " \o Modifiers(binding, "ctrl+", "shift+", "alt+", "meta+")
        \o MouseButtonToString(binding.button)

\* BaseMouseBinding.getBaseAriaLabel(): AriaLabelProvider.toLabel over the
\* binding's modifiers and MouseButtonUtils.toAriaString(button).
BaseAriaLabel(binding) ==
    Modifiers(binding, "Ctrl+", "Shift+", "Alt+", "Meta+") \o MouseButtonToString(binding.button)

\* MouseBinding.getLabel() / SelectionBinding.getLabel().
MouseLabel(binding) ==
    IF binding.type = "mouse" THEN BaseAriaLabel(binding) ELSE "SEL " \o BaseAriaLabel(binding)

\* new ResolvedMouseBinding(binding): isChord() is false, one dispatch part.
ResolvedMouseBinding(binding) ==
    [kind |-> binding.type, chord |-> FALSE,
     dispatchParts |-> <<Some(MouseDispatchString(binding))>>,
     label |-> Some(MouseLabel(binding))]


(***************************************************************************)
(* Keyboard events and their resolved keybindings. resolveKeyboardEvent is *)
(* abstract in AbstractKeybindingService; the dispatch string follows the  *)
(* dispatch-string grammar [ctrl+][shift+][alt+][meta+]<key>.              *)
(***************************************************************************)
\* IKeyboardEvent: the modifier flags and the key.
KeyboardEvent(ctrlKey, shiftKey, altKey, metaKey, keyCode) ==
    [ctrlKey |-> ctrlKey, shiftKey |-> shiftKey, altKey |-> altKey,
     metaKey |-> metaKey, keyCode |-> keyCode]

\* Keys that are modifiers themselves: pressed alone they have no dispatch part.
ModifierKeys == {"Ctrl", "Shift", "Alt", "Meta"}

\* The display name of a key.
KeyLabel(keyCode) ==
    CASE keyCode = "k" -> "K" [] keyCode = "s" -> "S" [] keyCode = "b" -> "B"
      [] keyCode = "d" -> "D" [] keyCode = "r" -> "R" [] keyCode = "x" -> "X"
      [] OTHER -> keyCode

\* resolveKeyboardEvent(e): a one-part keybinding; its dispatch part is null
\* when only modifier keys are pressed.
resolveKeyboardEvent(e) ==
    [kind |-> "keyboard", chord |-> FALSE,
     dispatchParts |-> <<IF e.keyCode \in ModifierKeys THEN Null
                         ELSE Some(Modifiers(e, "ctrl+", "shift+", "alt+", "meta+") \o e.keyCode)>>,
     label |-> Some(IF e.keyCode \in ModifierKeys THEN e.keyCode
                    ELSE Modifiers(e, "Ctrl+", "Shift+", "Alt+", "Meta+") \o KeyLabel(e.keyCode))]

\* A keybinding of two parts (isChord() is true), which a keyboard event is
\* not expected to resolve to.
ChordKeybinding ==
    [kind |-> "keyboard", chord |-> TRUE,
     dispatchParts |-> <<Some("ctrl+k"), Some("ctrl+s")>>,
     label |-> Some("Ctrl+K Ctrl+S")]

\* The keyboard events of the model.
KeyboardEvents ==
    {KeyboardEvent(TRUE, FALSE, FALSE, FALSE, k) : k \in {"k", "s", "b", "d", "r", "Ctrl"}}
        \cup {KeyboardEvent(FALSE, FALSE, FALSE, FALSE, "x")}

\* What resolveKeyboardEvent may hand to _doDispatch.
KeyboardKeybindings == {resolveKeyboardEvent(e) : e \in KeyboardEvents} \cup {ChordKeybinding}

(***************************************************************************)
(* Resolver table (KeybindingResolver): an ordered list of rules, default  *)
(* rules first and user rules after them.                                  *)
(***************************************************************************)
\* One rule: a pattern of one or two dispatch strings, a context predicate
\* (a context key that must be set, or none), a command id (none = the binding
\* is removed), its arguments, the bubble flag and the continue-as-chord flag.
Rule(parts, when, command, args, bubble, enterChord) ==
    [parts |-> parts, when |-> when, command |-> command, commandArgs |-> args,
     bubble |-> bubble, enterChord |-> enterChord]

\* The rule table of the model.
Rules ==
    << Rule(<<"ctrl+k">>, Null, Null, Null, FALSE, TRUE),
       Rule(<<"ctrl+k", "ctrl+s">>, Null, Some("saveAll"), Null, FALSE, FALSE),
       Rule(<<"ctrl+s">>, Null, Some("save"), Some(<<"all">>), FALSE, FALSE),
       Rule(<<"ctrl+s">>, Some("editorTextFocus"), Some("saveEditor"), Null, FALSE, FALSE),
       Rule(<<"ctrl+b">>, Null, Some("toggleSidebar"), Null, TRUE, FALSE),
       Rule(<<"ctrl+d">>, Null, Some("deleteLine"), Null, FALSE, FALSE),
       Rule(<<"ctrl+k", "ctrl+r">>, Null, Some("rename"), Null, FALSE, FALSE),
       Rule(<<"ctrl+k", "ctrl+b">>, Null, Some("toggleBreadcrumbs"), Null, TRUE, FALSE),
       Rule(<<MouseDispatchString(MouseBinding(TRUE, FALSE, FALSE, FALSE, MouseButtonLeft, 2))>>,
            Null, Some("selectWord"), Null, FALSE, FALSE),
       Rule(<<MouseDispatchString(MouseBinding(FALSE, FALSE, TRUE, FALSE, MouseButtonRight, 1))>>,
            Null, Some("peek"), Null, FALSE, FALSE),
       Rule(<<MouseDispatchString(SelectionBinding(FALSE, FALSE, TRUE, FALSE, MouseButtonLeft))>>,
            Null, Some("columnSelect"), Some(<<"column">>), FALSE, FALSE),
       Rule(<<MouseDispatchString(MouseBinding(FALSE, FALSE, TRUE, FALSE, MouseButtonLeft, 1))>>,
            Some("editorTextFocus"), Some("addCursor"), Null, FALSE, FALSE),
       Rule(<<MouseDispatchString(SelectionBinding(TRUE, FALSE, FALSE, FALSE, MouseButtonRight))>>,
            Null, Some("expandSelection"), Null, FALSE, FALSE),
       \* user rules
       Rule(<<"ctrl+d">>, Null, Null, Null, FALSE, FALSE),
       Rule(<<"ctrl+k", "ctrl+r">>, Null, Null, Null, FALSE, FALSE),
       Rule(<<MouseDispatchString(MouseBinding(FALSE, FALSE, TRUE, FALSE, MouseButtonRight, 1))>>,
            Some("editorTextFocus"), Null, Null, FALSE, FALSE),
       Rule(<<MouseDispatchString(SelectionBinding(TRUE, FALSE, FALSE, FALSE, MouseButtonRight))>>,
            Some("editorTextFocus"), Null, Null, FALSE, FALSE) >>

\* The context snapshots getContext(target) may return: the context keys set.
Contexts == {{}, {"editorTextFocus"}}

\* Whether rule r is a candidate for the query (currentChord, keypress) in
\* context contextValue: with no chord prefix the one-part rules on keypress,
\* with a prefix the two-part rules on (prefix, keypress); the rule's context
\* predicate must hold.
RuleMatches(r, contextValue, currentChord, keypress) ==
    /\ IF currentChord = Null
       THEN Len(r.parts) = 1 /\ r.parts[1] = keypress
       ELSE Len(r.parts) = 2 /\ r.parts[1] = Val(currentChord) /\ r.parts[2] = keypress
    /\ (r.when = Null \/ Val(r.when) \in contextValue)

\* The outcome of a winning rule (IResolveResult).
ResolveResult(r) ==
    [enterChord |-> r.enterChord, commandId |-> r.command,
     commandArgs |-> r.commandArgs, bubble |-> r.bubble]

\* KeybindingResolver.resolve(contextValue, currentChord, keypress): at most one
\* outcome, the last-registered candidate winning.
Resolve(contextValue, currentChord, keypress) ==
    LET cand == {i \in 1..Len(Rules) : RuleMatches(Rules[i], contextValue, currentChord, keypress)}
    IN  IF cand = {} THEN Null
        ELSE Some(ResolveResult(Rules[CHOOSE i \in cand : \A j \in cand : j <= i]))

(***************************************************************************)
(* State of AbstractKeybindingService and of its environment.              *)
(*                                                                         *)
(* The code reads the wall clock only as Date.now() - chordEnterTime, in   *)
(* the callback of the checker scheduled by _enterChordMode. The scheduled *)
(* checker therefore carries that difference (elapsed) and the elapsed     *)
(* time at which its next run is due.                                      *)
(***************************************************************************)
VARIABLES
    currentChord,               \* _currentChord: null or {keypress, label}
    currentChordChecker,        \* _currentChordChecker: null when cancelled, else the
                                \* scheduled callback {elapsed, due}
    currentChordStatusMessage,  \* _currentChordStatusMessage: null or the status handle
    liveStatus,                 \* chord status notifications shown and not disposed
    selectionCommand,           \* _selectionCommand: null or the resolve result
    hasFocus,                   \* _documentHasFocus()
    executing,                  \* executor futures in flight (those followed),
                                \* each with whether its call was logged
    lastOp,                     \* what the last handler was given, did and returned
    gesture,                    \* the selection gesture since the last mouse-down
    monitor,                    \* the GlobalMouseMoveMonitor and what it has called
    recorder                    \* the KeybindingsSearchWidget and what it has fired

vars == <<currentChord, currentChordChecker, currentChordStatusMessage, liveStatus,
          selectionCommand, hasFocus, executing, lastOp, gesture, monitor, recorder>>

\* The two objects beside the service.
widgets == <<monitor, recorder>>

chordVars == <<currentChord, currentChordChecker, currentChordStatusMessage, liveStatus>>

\* The record of one handler run. The fields a handler does not use keep
\* these values.
NoOp ==
    [op |-> "none", kb |-> Null, repeat |-> FALSE, mouse |-> Null,
     enableNonSelections |-> FALSE, clickResult |-> Null, settled |-> Null,
     logged |-> FALSE,
     preChord |-> Null, preSel |-> Null, preElapsed |-> Null, preFocus |-> TRUE,
     queries |-> <<>>, result |-> Null, warned |-> FALSE,
     calls |-> <<>>, telemetry |-> <<>>, notes |-> <<>>, ret |-> "void"]

\* Date.now() - chordEnterTime for the scheduled checker, if any.
Elapsed == IF currentChordChecker = Null THEN Null
           ELSE Some(Val(currentChordChecker).elapsed)

\* The part of a handler's record that is read before the handler runs.
Pre(op) == [NoOp EXCEPT !.op = op, !.preChord = currentChord,
                        !.preSel = selectionCommand, !.preElapsed = Elapsed,
                        !.preFocus = hasFocus]

\* The largest number of monitoring sessions followed.
MaxSessions == 2

\* A GlobalMouseMoveMonitor as constructed: no callbacks stored (callbacks,
\* with the merger: isMonitoring() is callbacks # Null), no listeners hooked.
\* started counts the calls of startMonitoring, begun holds those that began
\* a session, stops counts the calls of stopMonitoring that ended one; log
\* holds the end-of-session callbacks invoked so far, last what the last
\* event was and did.
NoMonitor ==
    [callbacks |-> Null, initialButtons |-> 0, hooks |-> {}, disposed |-> FALSE,
     started |-> 0, begun |-> {}, stops |-> 0, log |-> <<>>,
     last |-> [event |-> "none", buttons |-> 0, moved |-> 0, ending |-> Null]]

\* The largest number of bindings recorded between two resets.
MaxRecorded == 4

\* A KeybindingsSearchWidget as constructed: no parts held, chords enabled,
\* keys recorded. history holds the bindings recorded since the last reset,
\* each with the enableChord it was recorded under; fired holds the
\* onKeybinding events of the last handler.
NoRecorder ==
    [firstPart |-> Null, chordPart |-> Null, enableChord |-> TRUE,
     recordOnlyMouse |-> FALSE, history |-> <<>>, fired |-> <<>>]

\* The selection gesture as its caller sees it: phase is "pressed" after a
\* mouse-down that returned Selection, then "completed" or "cancelled" after
\* the first completeSelection or cancelSelection that follows it, and "none"
\* before any such mouse-down and after one that returned None; a mouse-down
\* that returned Mouse leaves _selectionCommand, and so the gesture, alone.
\* command is the resolve result the press stored; runs counts the executor
\* calls made by completeSelection since.
NoGesture == [phase |-> "none", command |-> Null, runs |-> 0]

\* constructor: no chord, a new (unscheduled) IntervalTimer, no status
\* message, no selection command.
Init ==
    /\ currentChord = Null
    /\ currentChordChecker = Null
    /\ currentChordStatusMessage = Null
    /\ liveStatus = 0
    /\ selectionCommand = Null
    /\ hasFocus = TRUE
    /\ executing = <<>>
    /\ lastOp = NoOp
    /\ gesture = NoGesture
    /\ monitor = NoMonitor
    /\ recorder = NoRecorder

(***************************************************************************)
(* _getCommand and _executeCommand.                                        *)
(***************************************************************************)
\* _getCommand as it would be if it never passed the chord in progress to the
\* resolver.
GetCommandNoPrefix(keybinding, contextValue, chord) ==
    IF keybinding.chord
    THEN [queries |-> <<>>, result |-> Null, warned |-> TRUE]
    ELSE IF keybinding.dispatchParts[1] = Null
    THEN [queries |-> <<>>, result |-> Null, warned |-> FALSE]
    ELSE LET firstPart == Val(keybinding.dispatchParts[1])
         IN  [queries |-> <<[currentChord |-> Null, keypress |-> firstPart]>>,
              result |-> Resolve(contextValue, Null, firstPart),
              warned |-> FALSE]

\* _getCommand as it would be without the test of keybinding.isChord().
GetCommandNoChordTest(keybinding, contextValue, chord) ==
    IF keybinding.dispatchParts[1] = Null
    THEN [queries |-> <<>>, result |-> Null, warned |-> FALSE]
    ELSE LET firstPart == Val(keybinding.dispatchParts[1])
             prefix == IF chord # Null THEN Some(Val(chord).keypress) ELSE Null
         IN  [queries |-> <<[currentChord |-> prefix, keypress |-> firstPart]>>,
              result |-> Resolve(contextValue, prefix, firstPart),
              warned |-> FALSE]

\* _getCommand(keybinding, target) with _currentChord = chord: the resolver
\* queries made, the result, and whether a warning was logged.
GetCommand(keybinding, contextValue, chord) ==
    IF keybinding.chord
    THEN [queries |-> <<>>, result |-> Null, warned |-> TRUE]
    ELSE IF keybinding.dispatchParts[1] = Null
    THEN [queries |-> <<>>, result |-> Null, warned |-> FALSE]
    ELSE LET firstPart == Val(keybinding.dispatchParts[1])
             prefix == IF chord # Null THEN Some(Val(chord).keypress) ELSE Null
         IN  [queries |-> <<[currentChord |-> prefix, keypress |-> firstPart]>>,
              result |-> Resolve(contextValue, prefix, firstPart),
              warned |-> FALSE]

\* The local variable args of _executeCommand before the executor is called.
MergedArgs(resolveResult, args) ==
    IF args = Null THEN resolveResult.commandArgs
    ELSE IF resolveResult.commandArgs # Null
         THEN Some(Val(args) \o Val(resolveResult.commandArgs))
         ELSE args

\* _executeCommand(resolveResult, args) run while _currentChord = chord and
\* _selectionCommand = sel. Reading resolveResult.commandArgs of a null
\* resolveResult throws a TypeError before anything is logged or invoked.
\* Both branches call executeCommand(commandId) with the id alone, after
\* publicLog2 has logged the 'workbenchActionExecuted' event of the id (logged).
ExecuteCommand(resolveResult, args, chord, sel) ==
    IF resolveResult = Null
    THEN [threw |-> TRUE, calls |-> <<>>, telemetry |-> <<>>]
    ELSE [threw |-> FALSE,
          calls |-> <<[commandId |-> Val(resolveResult).commandId, args |-> Null,
                       merged |-> MergedArgs(Val(resolveResult), args),
                       chordHeld |-> chord # Null, selectionHeld |-> sel # Null,
                       logged |-> TRUE]>>,
          telemetry |-> <<Val(resolveResult).commandId>>]

\* No executor call.
NotExecuted == [threw |-> FALSE, calls |-> <<>>, telemetry |-> <<>>]

\* The futures in flight after a handler made the executor calls calls. The
\* futures of at most MaxInFlight calls are followed to their settlement.
Launch(calls) ==
    LET all == executing \o [i \in 1..Len(calls) |-> [logged |-> calls[i].logged]]
    IN  IF Len(all) <= MaxInFlight THEN all ELSE SubSeq(all, 1, MaxInFlight)

(***************************************************************************)
(* Chord mode.                                                             *)
(***************************************************************************)
\* The chord fields of the service as one record.
ChordState ==
    [chord |-> currentChord, checker |-> currentChordChecker,
     status |-> currentChordStatusMessage, live |-> liveStatus]

\* A status notification: its message key and the labels it names.
Note(kind, first, second) == [kind |-> kind, first |-> first, second |-> second]

\* _enterChordMode as it would be without the call of cancelAndSet.
EnterChordModeKeepChecker(cs, firstPart, keypressLabel) ==
    [chord |-> Some([keypress |-> firstPart, label |-> keypressLabel]),
     status |-> Some([kind |-> "first.chord", first |-> keypressLabel, second |-> Null]),
     live |-> cs.live + 1,
     checker |-> cs.checker]

\* _enterChordMode(firstPart, keypressLabel): the chord is replaced, a status
\* notification is shown and its handle stored over the old one, the checker
\* is cancelled and set again: chordEnterTime = Date.now(), first run due one
\* interval later.
EnterChordMode(cs, firstPart, keypressLabel) ==
    [chord |-> Some([keypress |-> firstPart, label |-> keypressLabel]),
     status |-> Some(Note("first.chord", keypressLabel, Null)),
     live |-> cs.live + 1,
     checker |-> Some([elapsed |-> 0, due |-> ChordCheckInterval])]

\* _leaveChordMode as it would be without the call of cancel.
LeaveChordModeKeepChecker(cs) ==
    [chord |-> Null,
     status |-> Null,
     live |-> IF cs.status # Null THEN cs.live - 1 ELSE cs.live,
     checker |-> cs.checker]

\* _leaveChordMode as it would be without "this._currentChord = null".
LeaveChordModeKeepChord(cs) ==
    [chord |-> cs.chord,
     status |-> Null,
     live |-> IF cs.status # Null THEN cs.live - 1 ELSE cs.live,
     checker |-> Null]

\* _leaveChordMode(): the stored status message (if any) is disposed, the
\* checker cancelled, the chord cleared.
LeaveChordMode(cs) ==
    [chord |-> Null,
     status |-> Null,
     live |-> IF cs.status # Null THEN cs.live - 1 ELSE cs.live,
     checker |-> Null]

\* The chord fields take the values of cs.
SetChordState(cs) ==
    /\ currentChord' = cs.chord
    /\ currentChordChecker' = cs.checker
    /\ currentChordStatusMessage' = cs.status
    /\ liveStatus' = cs.live

\* The expiry test as it would be with >= for >.
ChordExpiredAt(elapsed) == elapsed >= ChordTimeout

\* "Date.now() - chordEnterTime > 5000"
ChordExpired(elapsed) == elapsed > ChordTimeout

\* The checker's callback as it would be without the expiry test.
CheckerCallbackFocusOnly(cs, focus) ==
    IF ~focus
    THEN [chord |-> Null, status |-> Null, checker |-> Null,
          live |-> IF cs.status # Null THEN cs.live - 1 ELSE cs.live]
    ELSE cs

\* The callback given to cancelAndSet, run on chord fields cs: leave chord
\* mode when the document has no focus or the chord has expired.
CheckerCallback(cs, focus) ==
    IF ~focus THEN LeaveChordMode(cs)
    ELSE IF ChordExpired(Val(cs.checker).elapsed) THEN LeaveChordMode(cs)
    ELSE cs

\* setInterval: after a run of the callback that did not cancel the checker,
\* the next run is due one interval later.
Reschedule(cs) ==
    IF cs.checker = Null THEN cs
    ELSE [cs EXCEPT !.checker = Some([Val(cs.checker) EXCEPT !.due = @ + ChordCheckInterval])]

(***************************************************************************)
(* _doDispatch.                                                            *)
(***************************************************************************)
\* The test as it would be without "|| !resolveResult.commandId".
MissingChordNoMatchOnly(cs, r) == cs.chord # Null /\ r = Null

\* "if (this._currentChord) { if (!resolveResult || !resolveResult.commandId)":
\* a chord is in progress and the key completes it to no command.
MissingChord(cs, r) == cs.chord # Null /\ (r = Null \/ Val(r).commandId = Null)

\* The test as it would be if the command were executed inside
\* "if (!resolveResult.bubble)".
HasCommandUnlessBubble(r) == r # Null /\ Val(r).commandId # Null /\ ~Val(r).bubble

\* "if (resolveResult && resolveResult.commandId)"
HasCommand(r) == r # Null /\ Val(r).commandId # Null

\* shouldPreventDefault as it would be if it started as true.
ShouldPreventDefaultAlways(missing, run, r) == TRUE

\* shouldPreventDefault as it would be without "if (!resolveResult.bubble)".
ShouldPreventDefaultOnMatch(missing, run, r) == missing \/ run

\* shouldPreventDefault at the end of _doDispatch when chord mode is not
\* entered: set for a chord completed to no command (missing), and for an
\* executed command (run) whose rule does not bubble.
ShouldPreventDefault(missing, run, r) == missing \/ (run /\ ~Val(r).bubble)

\* The body of _doDispatch once resolveResult = g.result is known.
DoDispatchOn(g, keybinding, cs, sel) ==
    LET keypressLabel == keybinding.label
        r == g.result
    IN  IF r # Null /\ Val(r).enterChord
        THEN [cs |-> EnterChordMode(cs, Val(keybinding.dispatchParts[1]), keypressLabel),
              queries |-> g.queries, result |-> r, warned |-> g.warned,
              notes |-> <<Note("first.chord", keypressLabel, Null)>>,
              calls |-> <<>>, telemetry |-> <<>>, ret |-> "true"]
        ELSE LET missing == MissingChord(cs, r)
                 left == LeaveChordMode(cs)
                 run == HasCommand(r)
                 x == IF run THEN ExecuteCommand(r, Null, left.chord, sel) ELSE NotExecuted
                 shouldPreventDefault == ShouldPreventDefault(missing, run, r)
             IN  [cs |-> left,
                  queries |-> g.queries, result |-> r, warned |-> g.warned,
                  notes |-> IF missing
                            THEN <<Note("missing.chord", Val(cs.chord).label, keypressLabel)>>
                            ELSE <<>>,
                  calls |-> x.calls, telemetry |-> x.telemetry,
                  ret |-> IF shouldPreventDefault THEN "true" ELSE "false"]

\* _doDispatch(keybinding, target) on chord fields cs, with _selectionCommand =
\* sel: the new chord fields and the record of the run.
DoDispatch(keybinding, contextValue, cs, sel) ==
    DoDispatchOn(GetCommand(keybinding, contextValue, cs.chord), keybinding, cs, sel)

\* An auto-repeat key-down event (browserEvent.repeat) of a key follows a
\* key-down event of the same key, with no other event between them.
MayRepeat(keybinding) == lastOp.op = "dispatch" /\ lastOp.kb = Some(keybinding)

\* dispatchEvent(e, target) -> _dispatch -> _doDispatch(resolveKeyboardEvent(e), target).
\* repeat is the event's browserEvent.repeat, which no line of the path reads.
DispatchEvent(keybinding, repeat, contextValue) ==
    \E d \in {DoDispatch(keybinding, contextValue, ChordState, selectionCommand)} :
        /\ repeat => MayRepeat(keybinding)
        /\ SetChordState(d.cs)
        /\ executing' = Launch(d.calls)
        /\ lastOp' = [Pre("dispatch") EXCEPT !.kb = Some(keybinding), !.repeat = repeat,
                          !.queries = d.queries, !.result = d.result, !.warned = d.warned,
                          !.notes = d.notes, !.calls = d.calls, !.telemetry = d.telemetry,
                          !.ret = d.ret]
        /\ UNCHANGED <<selectionCommand, hasFocus, gesture>>
        /\ UNCHANGED widgets

\* softDispatch as it would be if it went through _doDispatch.
SoftDispatchAsDispatch(keybinding, contextValue, cs, sel) ==
    DoDispatch(keybinding, contextValue, cs, sel)

\* softDispatch(e, target) on chord fields cs: _getCommand of the resolved
\* keybinding, and nothing else; the result is returned.
SoftDispatch(keybinding, contextValue, cs, sel) ==
    LET g == GetCommand(keybinding, contextValue, cs.chord)
    IN  [cs |-> cs, queries |-> g.queries, result |-> g.result, warned |-> g.warned,
         notes |-> <<>>, calls |-> <<>>, telemetry |-> <<>>, ret |-> "result"]

\* softDispatch(e, target)
SoftDispatchEvent(keybinding, contextValue) ==
    \E d \in {SoftDispatch(keybinding, contextValue, ChordState, selectionCommand)} :
        /\ SetChordState(d.cs)
        /\ executing' = Launch(d.calls)
        /\ lastOp' = [Pre("softDispatch") EXCEPT !.kb = Some(keybinding),
                          !.queries = d.queries, !.result = d.result, !.warned = d.warned,
                          !.notes = d.notes, !.calls = d.calls, !.telemetry = d.telemetry,
                          !.ret = d.ret]
        /\ UNCHANGED <<selectionCommand, hasFocus, gesture>>
        /\ UNCHANGED widgets

\* One run of the checker's callback, when it is due.
CheckerTick ==
    /\ currentChordChecker # Null
    /\ Val(currentChordChecker).elapsed >= Val(currentChordChecker).due
    /\ SetChordState(Reschedule(CheckerCallback(ChordState, hasFocus)))
    /\ lastOp' = Pre("tick")
    /\ UNCHANGED <<selectionCommand, hasFocus, executing, gesture>>
    /\ UNCHANGED widgets

(***************************************************************************)
(* Environment: the wall clock and the document's focus.                   *)
(***************************************************************************)
\* Time passes while a checker is scheduled. A due run of the checker
\* happens before time passes on.
Advance ==
    /\ currentChordChecker # Null
    /\ Val(currentChordChecker).elapsed < Val(currentChordChecker).due
    /\ Val(currentChordChecker).elapsed + ClockStep <= MaxTime
    /\ currentChordChecker' =
           Some([Val(currentChordChecker) EXCEPT !.elapsed = @ + ClockStep])
    /\ lastOp' = NoOp
    /\ UNCHANGED <<currentChord, currentChordStatusMessage, liveStatus,
                   selectionCommand, hasFocus, executing, gesture>>
    /\ UNCHANGED widgets

\* The document gains or loses focus.
FocusChange ==
    /\ hasFocus' = ~hasFocus
    /\ lastOp' = NoOp
    /\ UNCHANGED <<chordVars, selectionCommand, executing, gesture>>
    /\ UNCHANGED widgets

(***************************************************************************)
(* Mouse clicks and selection gestures.                                    *)
(***************************************************************************)
\* IEditorMouseEvent: modifier flags, button, click count; the position is
\* the same for every event of the model.
MouseEvent(ctrlKey, altKey, button, times) ==
    [ctrlKey |-> ctrlKey, shiftKey |-> FALSE, altKey |-> altKey, metaKey |-> FALSE,
     button |-> button, times |-> times, position |-> "position"]

\* The mouse events of the model.
MouseEvents ==
    {MouseEvent(TRUE, FALSE, MouseButtonLeft, t) : t \in 1..MaxTimes}
        \cup {MouseEvent(FALSE, TRUE, MouseButtonLeft, 1),
              MouseEvent(FALSE, TRUE, MouseButtonRight, 1),
              MouseEvent(TRUE, FALSE, MouseButtonRight, 1),
              MouseEvent(FALSE, FALSE, MouseButtonLeft, 1)}

\* The MouseBinding onEditorMouseDown builds from the event.
EventMouseBinding(e) ==
    MouseBinding(e.ctrlKey, e.shiftKey, e.altKey, e.metaKey, e.button, e.times)

\* The SelectionBinding onEditorMouseDown builds from the event.
EventSelectionBinding(e) ==
    SelectionBinding(e.ctrlKey, e.shiftKey, e.altKey, e.metaKey, e.button)

\* onEditorMouseDown as it would be if it stored the selection result only
\* when a rule matched.
MouseDownOnKeepOld(m, s, e, enableNonSelections, chord, sel) ==
    IF enableNonSelections /\ m.result # Null
    THEN LET x == ExecuteCommand(m.result, Some(<<e.position>>), chord, sel)
         IN  [sel |-> sel, queries |-> m.queries, result |-> m.result, click |-> m.result,
              calls |-> x.calls, telemetry |-> x.telemetry, ret |-> "Mouse"]
    ELSE [sel |-> IF s.result # Null THEN s.result ELSE sel,
          queries |-> (IF enableNonSelections THEN m.queries ELSE <<>>) \o s.queries,
          result |-> s.result, click |-> m.result, calls |-> <<>>, telemetry |-> <<>>,
          ret |-> IF s.result # Null THEN "Selection" ELSE "None"]

\* onEditorMouseDown as it would be if the SelectionBinding were tried before
\* the MouseBinding.
MouseDownOnSelectionFirst(m, s, e, enableNonSelections, chord, sel) ==
    IF s.result # Null
    THEN [sel |-> s.result, queries |-> s.queries, result |-> s.result,
          click |-> m.result, calls |-> <<>>, telemetry |-> <<>>, ret |-> "Selection"]
    ELSE IF enableNonSelections /\ m.result # Null
    THEN LET x == ExecuteCommand(m.result, Some(<<e.position>>), chord, sel)
         IN  [sel |-> sel, queries |-> s.queries \o m.queries, result |-> m.result,
              click |-> m.result, calls |-> x.calls, telemetry |-> x.telemetry,
              ret |-> "Mouse"]
    ELSE [sel |-> Null,
          queries |-> s.queries \o (IF enableNonSelections THEN m.queries ELSE <<>>),
          result |-> Null, click |-> m.result, calls |-> <<>>, telemetry |-> <<>>,
          ret |-> "None"]

\* The body of onEditorMouseDown once the resolve results are known: m for
\* the MouseBinding (not resolved unless enableNonSelections), s for the
\* SelectionBinding (resolved only when the click did not match). click is
\* the resolver's answer for the MouseBinding, asked for or not.
MouseDownOn(m, s, e, enableNonSelections, chord, sel) ==
    IF enableNonSelections /\ m.result # Null
    THEN LET x == ExecuteCommand(m.result, Some(<<e.position>>), chord, sel)
         IN  [sel |-> sel, queries |-> m.queries, result |-> m.result, click |-> m.result,
              calls |-> x.calls, telemetry |-> x.telemetry, ret |-> "Mouse"]
    ELSE [sel |-> s.result,
          queries |-> (IF enableNonSelections THEN m.queries ELSE <<>>) \o s.queries,
          result |-> s.result, click |-> m.result, calls |-> <<>>, telemetry |-> <<>>,
          ret |-> IF s.result # Null THEN "Selection" ELSE "None"]

\* onEditorMouseDown(mouseEvent, enableNonSelections) with _currentChord =
\* chord and _selectionCommand = sel: the new _selectionCommand and the record
\* of the run.
MouseDown(e, enableNonSelections, contextValue, chord, sel) ==
    MouseDownOn(GetCommand(ResolvedMouseBinding(EventMouseBinding(e)), contextValue, chord),
                GetCommand(ResolvedMouseBinding(EventSelectionBinding(e)), contextValue, chord),
                e, enableNonSelections, chord, sel)

\* onEditorMouseDown(mouseEvent, enableNonSelections)
OnEditorMouseDown(e, enableNonSelections, contextValue) ==
    \E d \in {MouseDown(e, enableNonSelections, contextValue, currentChord, selectionCommand)} :
        /\ selectionCommand' = d.sel
        /\ executing' = Launch(d.calls)
        /\ lastOp' = [Pre("mouseDown") EXCEPT !.mouse = Some(e),
                          !.enableNonSelections = enableNonSelections,
                          !.clickResult = d.click,
                          !.queries = d.queries, !.result = d.result,
                          !.calls = d.calls, !.telemetry = d.telemetry, !.ret = d.ret]
        /\ gesture' = CASE d.ret = "Selection" ->
                               [phase |-> "pressed", command |-> d.sel, runs |-> 0]
                        [] d.ret = "Mouse" -> gesture
                        [] OTHER -> NoGesture
        /\ UNCHANGED <<chordVars, hasFocus>>
        /\ UNCHANGED widgets

\* completeSelection as it would be if it cleared _selectionCommand after
\* executing the command.
CompleteExecuteFirst(chord, sel) ==
    LET x == ExecuteCommand(sel, Null, chord, sel)
    IN  [sel |-> Null, calls |-> x.calls, telemetry |-> x.telemetry,
         ret |-> IF x.threw THEN "TypeError" ELSE "promise"]

\* completeSelection() with _currentChord = chord and _selectionCommand = sel:
\* the command is taken, _selectionCommand cleared, the command executed.
Complete(chord, sel) ==
    LET x == ExecuteCommand(sel, Null, chord, Null)
    IN  [sel |-> Null, calls |-> x.calls, telemetry |-> x.telemetry,
         ret |-> IF x.threw THEN "TypeError" ELSE "promise"]

\* completeSelection()
CompleteSelection ==
    \E d \in {Complete(currentChord, selectionCommand)} :
        /\ gesture.runs < MaxRuns
        /\ selectionCommand' = d.sel
        /\ executing' = Launch(d.calls)
        /\ lastOp' = [Pre("completeSelection") EXCEPT
                          !.calls = d.calls, !.telemetry = d.telemetry, !.ret = d.ret]
        /\ gesture' = [gesture EXCEPT
                          !.phase = IF @ = "pressed" THEN "completed" ELSE @,
                          !.runs = @ + Len(d.calls)]
        /\ UNCHANGED <<chordVars, hasFocus>>
        /\ UNCHANGED widgets

\* cancelSelection as it would be if it left _selectionCommand alone.
CancelKeep(sel) == sel

\* cancelSelection(): the new _selectionCommand.
Cancel(sel) == Null

\* cancelSelection as it would be if it left chord mode too.
CancelSelectionLeavingChord ==
    /\ selectionCommand' = Cancel(selectionCommand)
    /\ SetChordState(LeaveChordMode(ChordState))
    /\ lastOp' = Pre("cancelSelection")
    /\ gesture' = [gesture EXCEPT !.phase = IF @ = "pressed" THEN "cancelled" ELSE @]
    /\ UNCHANGED <<hasFocus, executing>>
    /\ UNCHANGED widgets

\* cancelSelection()
CancelSelection ==
    /\ selectionCommand' = Cancel(selectionCommand)
    /\ lastOp' = Pre("cancelSelection")
    /\ gesture' = [gesture EXCEPT !.phase = IF @ = "pressed" THEN "cancelled" ELSE @]
    /\ UNCHANGED <<chordVars, hasFocus, executing>>
    /\ UNCHANGED widgets

(***************************************************************************)
(* Settlement of the executor's future. _executeCommand returns            *)
(* executeCommand(commandId).then(undefined, err => warn(err)).            *)
(***************************************************************************)
\* The ways the future returned by ICommandService.executeCommand settles.
Settlements == {"fulfilled", "rejected"}

\* The returned promise as it would be without the rejection handler.
ThenNoHandler(settlement) == [promise |-> settlement, notes |-> <<>>]

\* ".then(undefined, err => this._notificationService.warn(err))" on a future
\* that settles as settlement: the state of the promise _executeCommand
\* returned, and the notifications shown. A rejection runs the handler,
\* which warns and returns, so the promise is fulfilled.
ThenWarn(settlement) ==
    IF settlement = "rejected"
    THEN [promise |-> "fulfilled", notes |-> <<Note("warn", Some("err"), Null)>>]
    ELSE [promise |-> "fulfilled", notes |-> <<>>]

\* The future of an executor call in flight settles.
ExecutorSettles(settlement) ==
    /\ executing # <<>>
    /\ executing' = Tail(executing)
    /\ lastOp' = [Pre("settle") EXCEPT !.settled = Some(settlement),
                      !.logged = Head(executing).logged,
                      !.notes = ThenWarn(settlement).notes,
                      !.ret = ThenWarn(settlement).promise]
    /\ UNCHANGED <<chordVars, selectionCommand, hasFocus, gesture>>
    /\ UNCHANGED widgets

(***************************************************************************)
(* The specification.                                                      *)
(***************************************************************************)
Next ==
    \/ \E kb \in KeyboardKeybindings, r \in BOOLEAN, c \in Contexts : DispatchEvent(kb, r, c)
    \/ CheckerTick
    \/ Advance
    \/ FocusChange
    \/ \E e \in MouseEvents, n \in BOOLEAN, c \in Contexts : OnEditorMouseDown(e, n, c)
    \/ CompleteSelection
    \/ CancelSelection
    \/ \E o \in Settlements : ExecutorSettles(o)
    \/ \E kb \in KeyboardKeybindings, c \in Contexts : SoftDispatchEvent(kb, c)

Spec == Init /\ [][Next]_vars

(***************************************************************************)
(* Properties.                                                             *)
(***************************************************************************)
\* The last handler run was a key dispatch.
Dispatched == lastOp.op = "dispatch"

\* The keybinding of the last key dispatch.
LastKb == Val(lastOp.kb)

\* Every resolver query of the last handler run had chord prefix p.
QueriedWith(p) == \A i \in DOMAIN lastOp.queries : lastOp.queries[i].currentChord = p

\* The engine is Idle: no chord, no scheduled checker, no status message.
Idle ==
    /\ currentChord = Null
    /\ currentChordChecker = Null
    /\ currentChordStatusMessage = Null
    /\ liveStatus = 0

\* The last key dispatch started in Idle and resolved to enterChord.
EnteredChordFromIdle ==
    /\ Dispatched
    /\ lastOp.preChord = Null
    /\ lastOp.result # Null
    /\ Val(lastOp.result).enterChord

\* C1: a dispatch in Idle whose resolve outcome has enterChord = true leaves
\* the engine awaiting the second key, the chord holding the event's first
\* dispatch part and label; a status notification naming the label is shown
\* and held, the checker is scheduled with its first run 500 ms after the
\* entry, no command is executed and the dispatch returns true.
C1_EnterChord ==
    EnteredChordFromIdle =>
        /\ currentChord = Some([keypress |-> Val(LastKb.dispatchParts[1]),
                                label |-> LastKb.label])
        /\ lastOp.notes = <<Note("first.chord", LastKb.label, Null)>>
        /\ currentChordStatusMessage = Some(Note("first.chord", LastKb.label, Null))
        /\ liveStatus = 1
        /\ currentChordChecker = Some([elapsed |-> 0, due |-> ChordCheckInterval])
        /\ lastOp.calls = <<>>
        /\ lastOp.ret = "true"

\* C1 witness: ctrl+K was dispatched in Idle and the engine awaits the second key.
C1_Witness ==
    /\ EnteredChordFromIdle
    /\ LastKb.dispatchParts = <<Some("ctrl+k")>>
    /\ currentChord = Some([keypress |-> "ctrl+k", label |-> Some("Ctrl+K")])

\* The last key dispatch ran while a chord was in progress.
DispatchedInChord == Dispatched /\ lastOp.preChord # Null

\* The last key dispatch resolved to an outcome with a command id.
ResolvedToCommand == lastOp.result # Null /\ Val(lastOp.result).commandId # Null

\* C2: a key dispatched while a chord is in progress is resolved with the
\* chord's first part as prefix (one query, for a one-part keybinding that has
\* a dispatch part); when the outcome has a command id the executor is
\* invoked exactly once, with that id, and the engine ends Idle. With the
\* rules "ctrl+k" (enterChord) and "ctrl+k ctrl+s" (saveAll), ctrl+S after
\* ctrl+K executes saveAll.
C2_ChordSecondKey ==
    DispatchedInChord =>
        /\ QueriedWith(Some(Val(lastOp.preChord).keypress))
        /\ (~LastKb.chord /\ LastKb.dispatchParts[1] # Null) => Len(lastOp.queries) = 1
        /\ ResolvedToCommand =>
              /\ Len(lastOp.calls) = 1
              /\ lastOp.calls[1].commandId = Val(lastOp.result).commandId
              /\ Idle
        /\ (Val(lastOp.preChord).keypress = "ctrl+k"
               /\ LastKb.dispatchParts = <<Some("ctrl+s")>>) =>
              /\ Len(lastOp.calls) = 1
              /\ lastOp.calls[1].commandId = Some("saveAll")

\* C2 witness: ctrl+S was dispatched after ctrl+K, saveAll was executed and
\* the engine is Idle.
C2_Witness ==
    /\ DispatchedInChord
    /\ Val(lastOp.preChord).keypress = "ctrl+k"
    /\ LastKb.dispatchParts = <<Some("ctrl+s")>>
    /\ Len(lastOp.calls) = 1
    /\ lastOp.calls[1].commandId = Some("saveAll")
    /\ Idle

\* C3: a key dispatched while a chord is in progress whose resolve outcome is
\* no match, or has no command id, shows the "not a command" notification
\* naming the chord's label and the key's label, returns the engine to Idle,
\* executes no command and returns true.
C3_ChordMiss ==
    (DispatchedInChord /\ ~ResolvedToCommand) =>
        /\ lastOp.notes = <<Note("missing.chord", Val(lastOp.preChord).label, LastKb.label)>>
        /\ Idle
        /\ lastOp.calls = <<>>
        /\ lastOp.ret = "true"

\* C3 witness: after ctrl+K, ctrl+R was dispatched, whose rule
\* "ctrl+k ctrl+r" is removed: resolved, with no command id.
C3_Witness ==
    /\ DispatchedInChord
    /\ LastKb.dispatchParts = <<Some("ctrl+r")>>
    /\ lastOp.result # Null
    /\ Val(lastOp.result).commandId = Null
    /\ lastOp.notes = <<Note("missing.chord", Some("Ctrl+K"), Some("Ctrl+R"))>>

\* The last handler run was a run of the checker's callback.
Ticked == lastOp.op = "tick"

\* The chord was entered more than 5000 ms before the last handler ran.
WasExpired == lastOp.preElapsed # Null /\ Val(lastOp.preElapsed) > ChordTimeout

\* C4 as stated: once 5000 ms have passed since a chord was entered, the
\* engine is Idle, so a key dispatched later than that is resolved with no
\* chord prefix.
C4_AsStated == (Dispatched /\ WasExpired) => QueriedWith(Null)

\* C4, amended: the chord ends at the first run of the checker more than
\* 5000 ms after the entry. The checker runs every 500 ms, and its run at
\* 5000 ms does not end the chord, so a chord is in progress for at most
\* 5000 + 500 ms; a key dispatched with the engine Idle is resolved with no
\* chord prefix.
C4_Timeout ==
    /\ (currentChord # Null) <=> (currentChordChecker # Null)
    /\ currentChordChecker # Null =>
           Val(currentChordChecker).elapsed <= ChordTimeout + ChordCheckInterval
    /\ (Ticked /\ WasExpired) => Idle
    /\ (Dispatched /\ lastOp.preChord = Null) => QueriedWith(Null)

\* C4 witness: the checker ran 5500 ms after the entry, with the document
\* focused, and the engine is Idle.
C4_Witness ==
    /\ Ticked
    /\ lastOp.preFocus
    /\ lastOp.preElapsed = Some(ChordTimeout + ChordCheckInterval)
    /\ Idle

\* C5: a run of the checker while a chord is in progress leaves chord mode
\* when the document has no focus or more than 5000 ms have passed since the
\* entry (chord cleared, status message disposed, checker cancelled); any
\* other run changes neither the chord, the status message, the elapsed time
\* nor the selection command. No run executes a command.
C5_CheckerTick ==
    Ticked =>
        /\ lastOp.preChord # Null
        /\ lastOp.calls = <<>>
        /\ selectionCommand = lastOp.preSel
        /\ IF ~lastOp.preFocus \/ WasExpired
           THEN Idle
           ELSE /\ currentChord = lastOp.preChord
                /\ currentChordStatusMessage =
                       Some(Note("first.chord", Val(lastOp.preChord).label, Null))
                /\ liveStatus = 1
                /\ currentChordChecker # Null
                /\ Elapsed = lastOp.preElapsed

\* C5 witness: the checker ran exactly 5000 ms after the entry, with the
\* document focused, and the chord is still in progress.
C5_Witness ==
    /\ Ticked
    /\ lastOp.preFocus
    /\ lastOp.preElapsed = Some(ChordTimeout)
    /\ currentChord # Null

\* C6 as stated: at every call of the executor no chord is held, and at a
\* call made by completeSelection no selection command is held.
C6_AsStated ==
    \A i \in DOMAIN lastOp.calls :
        /\ ~lastOp.calls[i].chordHeld
        /\ lastOp.op = "completeSelection" => ~lastOp.calls[i].selectionHeld

\* C6, amended: at every call of the executor made by a key dispatch no chord
\* is held, and at every call made by completeSelection no selection command
\* is held.
C6_ClearedBeforeExecute ==
    \A i \in DOMAIN lastOp.calls :
        /\ Dispatched => ~lastOp.calls[i].chordHeld
        /\ lastOp.op = "completeSelection" => ~lastOp.calls[i].selectionHeld

\* C6 witness: completeSelection called the executor with the command of
\* the pending selection.
C6_Witness ==
    /\ lastOp.op = "completeSelection"
    /\ lastOp.preSel # Null
    /\ Len(lastOp.calls) = 1
    /\ ~lastOp.calls[1].selectionHeld

\* C7: completeSelection with a pending selection that holds a command
\* executes that command and clears the pending selection; with no pending
\* selection it calls no command, raises no error and changes no state.
C7_CompleteSelection ==
    lastOp.op = "completeSelection" =>
        /\ (lastOp.preSel # Null /\ Val(lastOp.preSel).commandId # Null) =>
              /\ Len(lastOp.calls) = 1
              /\ lastOp.calls[1].commandId = Val(lastOp.preSel).commandId
              /\ selectionCommand = Null
        /\ lastOp.preSel = Null =>
              /\ lastOp.calls = <<>>
              /\ lastOp.ret # "TypeError"
              /\ selectionCommand = Null
              /\ currentChord = lastOp.preChord

\* The press that started the gesture matched a rule with a command.
GestureHasCommand == gesture.command # Null /\ Val(gesture.command).commandId # Null

\* C8: after a press that matched a selection rule with a command, once
\* completeSelection has been called the executor has been called exactly once
\* for the gesture, however many more times completeSelection is called, and
\* that call was for the rule's command; if cancelSelection was called first,
\* the executor is never called for the gesture, neither by cancelSelection
\* nor by any completeSelection after it.
C8_SelectionGesture ==
    /\ (gesture.phase = "completed" /\ GestureHasCommand) => gesture.runs = 1
    /\ gesture.phase = "cancelled" => gesture.runs = 0
    /\ (gesture.phase = "pressed" /\ lastOp.op = "mouseDown") =>
           /\ selectionCommand = gesture.command
           /\ gesture.runs = 0
    /\ (lastOp.op = "completeSelection" /\ gesture.phase = "completed"
            /\ GestureHasCommand /\ lastOp.calls # <<>>) =>
           lastOp.calls[1].commandId = Val(gesture.command).commandId
    /\ lastOp.op = "cancelSelection" => lastOp.calls = <<>>

\* C8 witness: a gesture was cancelled and completeSelection was called
\* after that.
C8_Witness ==
    /\ gesture.phase = "cancelled"
    /\ GestureHasCommand
    /\ lastOp.op = "completeSelection"

\* The event of the last mouse-down.
LastMouse == Val(lastOp.mouse)

\* The last handler run was a mouse-down in Idle, with click bindings
\* enabled, of the left button with ctrl held, with click count t.
CtrlLeftClick(t) ==
    /\ lastOp.op = "mouseDown"
    /\ lastOp.enableNonSelections
    /\ lastOp.preChord = Null
    /\ LastMouse = MouseEvent(TRUE, FALSE, MouseButtonLeft, t)

\* The last handler run called the executor with command id.
Executed(id) == \E i \in DOMAIN lastOp.calls : lastOp.calls[i].commandId = Some(id)

\* C9: with selectWord bound to a ctrl + left-button click with times = 2, a
\* double click with ctrl held executes selectWord and a single click with
\* ctrl held does not.
C9_ClickCount ==
    /\ CtrlLeftClick(2) => Executed("selectWord")
    /\ CtrlLeftClick(1) => ~Executed("selectWord")

\* C10: the bindings of a mouse-down are resolved with no chord prefix,
\* whether or not a chord is in progress.
C10_NoChordPrefix == lastOp.op = "mouseDown" => QueriedWith(Null)

\* The last handler run called the executor at least once.
CalledExecutor == lastOp.calls # <<>>

\* C11: at every call of the executor, the executor receives the arguments
\* _executeCommand has put together: the rule's stored arguments when the
\* caller gave none, the caller's arguments followed by the rule's stored
\* arguments when the caller gave some (a mouse click gives the position),
\* and no arguments only when there are neither.
C11_ExecutorArgs ==
    \A i \in DOMAIN lastOp.calls : lastOp.calls[i].args = lastOp.calls[i].merged

(***************************************************************************)
(* Chord entry while a chord is in progress. _doDispatch tests             *)
(* resolveResult.enterChord (line 206) before it looks at _currentChord    *)
(* (line 212), so _enterChordMode runs over a chord in progress whenever   *)
(* the resolver answers a query that has a chord prefix with enterChord.   *)
(* The rule table of Rules never does; ReenterSpec adds a resolver that    *)
(* does so for the first key of a chord pressed again.                     *)
(***************************************************************************)
\* _doDispatch is followed into _enterChordMode over a chord in progress
\* while fewer than MaxLive chord status notifications are live.
MaxLive == 2

\* An IResolveResult with enterChord = true: no command, no arguments.
EnterChordOutcome ==
    [enterChord |-> TRUE, commandId |-> Null, commandArgs |-> Null, bubble |-> FALSE]

\* The resolver query answered with EnterChordOutcome: the key that entered
\* the chord, pressed again.
ContinuedQuery == [currentChord |-> Some("ctrl+k"), keypress |-> "ctrl+k"]

\* dispatchEvent(e, target) while a chord is in progress, the resolver
\* answering ContinuedQuery with EnterChordOutcome.
DispatchEventContinuing(keybinding, contextValue) ==
    /\ currentChord # Null
    /\ liveStatus < MaxLive
    /\ \E g \in {GetCommand(keybinding, contextValue, currentChord)} :
        /\ g.queries = <<ContinuedQuery>>
        /\ \E d \in {DoDispatchOn([g EXCEPT !.result = Some(EnterChordOutcome)],
                                  keybinding, ChordState, selectionCommand)} :
            /\ SetChordState(d.cs)
            /\ lastOp' = [Pre("dispatch") EXCEPT !.kb = Some(keybinding),
                              !.queries = d.queries, !.result = d.result,
                              !.warned = d.warned, !.notes = d.notes, !.calls = d.calls,
                              !.telemetry = d.telemetry, !.ret = d.ret]
            /\ UNCHANGED <<selectionCommand, hasFocus, executing, gesture>>
            /\ UNCHANGED widgets

ReenterNext ==
    \/ Next
    \/ \E kb \in KeyboardKeybindings, c \in Contexts : DispatchEventContinuing(kb, c)

ReenterSpec == Init /\ [][ReenterNext]_vars

\* The last handler run was a key dispatch that entered chord mode while a
\* chord was in progress.
EnteredChordAgain ==
    /\ Dispatched
    /\ lastOp.preChord # Null
    /\ lastOp.result # Null
    /\ Val(lastOp.result).enterChord

C13_IdleReleased ==
    currentChord = Null =>
        /\ currentChordChecker = Null
        /\ currentChordStatusMessage = Null

\* C13 witness: a key dispatched with a chord in progress executed a
\* command, and the engine is Idle with the checker and the status released.
C13_Witness ==
    /\ Dispatched
    /\ lastOp.preChord # Null
    /\ lastOp.preElapsed = Some(ClockStep)
    /\ CalledExecutor
    /\ currentChord = Null
    /\ currentChordChecker = Null
    /\ currentChordStatusMessage = Null

\* The last handler run was a key dispatch made with the engine Idle.
DispatchedInIdle == Dispatched /\ lastOp.preChord = Null

\* C14: a key dispatched in Idle whose resolve outcome carries a command id
\* calls the executor exactly once, with that id, and the engine is Idle
\* afterwards.
C14_IdleCommand ==
    (DispatchedInIdle /\ ResolvedToCommand) =>
        /\ Len(lastOp.calls) = 1
        /\ lastOp.calls[1].commandId = Val(lastOp.result).commandId
        /\ Idle

\* C14 witness: ctrl+S dispatched in Idle executed save, whose rule has no
\* context predicate.
C14_Witness ==
    /\ DispatchedInIdle
    /\ LastKb.dispatchParts = <<Some("ctrl+s")>>
    /\ Len(lastOp.calls) = 1
    /\ Executed("save")
    /\ Idle

\* The last key dispatch resolved to an outcome with enterChord = true.
ResolvedToEnterChord == lastOp.result # Null /\ Val(lastOp.result).enterChord

\* C15: a key dispatched in Idle that resolves to no match, or to an outcome
\* with no command id that does not enter a chord (a removed binding), leaves
\* the engine Idle, calls no command, shows no notification and returns
\* false.
C15_IdleUnhandled ==
    (DispatchedInIdle /\ ~ResolvedToCommand /\ ~ResolvedToEnterChord) =>
        /\ Idle
        /\ lastOp.calls = <<>>
        /\ lastOp.telemetry = <<>>
        /\ lastOp.notes = <<>>
        /\ lastOp.ret = "false"
        /\ selectionCommand = lastOp.preSel

\* C15 witness: ctrl+D, whose binding a user rule removed, was dispatched in
\* Idle: the resolver answered with an outcome that has no command id.
C15_Witness ==
    /\ DispatchedInIdle
    /\ LastKb.dispatchParts = <<Some("ctrl+d")>>
    /\ lastOp.result # Null
    /\ Val(lastOp.result).commandId = Null
    /\ lastOp.ret = "false"
    /\ Idle

\* C16: a key dispatch returns true exactly when it entered chord mode, or
\* was the second key of a chord and matched no command, or matched a command
\* whose rule has bubble = false; otherwise it returns false. A matched rule
\* with bubble = true makes it return false.
C16_PreventDefault ==
    Dispatched =>
        /\ lastOp.ret \in {"true", "false"}
        /\ lastOp.ret = "true" <=>
              \/ ResolvedToEnterChord
              \/ lastOp.preChord # Null /\ ~ResolvedToCommand
              \/ ResolvedToCommand /\ ~Val(lastOp.result).bubble
        /\ (ResolvedToCommand /\ Val(lastOp.result).bubble) => lastOp.ret = "false"

\* C16 witness: ctrl+B, whose rule has bubble = true, executed toggleSidebar
\* and the dispatch returned false.
C16_Witness ==
    /\ Dispatched
    /\ Executed("toggleSidebar")
    /\ Val(lastOp.result).bubble
    /\ lastOp.ret = "false"

\* The last handler run was the settlement of an executor future by
\* rejection.
ExecutorRejected == lastOp.op = "settle" /\ lastOp.settled = Some("rejected")

\* C17: when the future of an executor call rejects, a warning notification
\* is shown, the promise _executeCommand returned is fulfilled, and the
\* chord, the checker's elapsed time and the selection command are what they
\* were before the rejection; a key dispatch that called the executor has
\* returned true or false, and completeSelection a promise.
C17_FailureContained ==
    /\ ExecutorRejected =>
          /\ lastOp.notes = <<Note("warn", Some("err"), Null)>>
          /\ lastOp.ret = "fulfilled"
          /\ currentChord = lastOp.preChord
          /\ Elapsed = lastOp.preElapsed
          /\ selectionCommand = lastOp.preSel
    /\ (Dispatched /\ CalledExecutor) => lastOp.ret \in {"true", "false"}
    /\ (lastOp.op = "completeSelection" /\ CalledExecutor) => lastOp.ret = "promise"

\* C17 witness: an executor future rejected while a chord was in progress and
\* a selection was pending, and both are still there.
C17_Witness ==
    /\ ExecutorRejected
    /\ lastOp.ret = "fulfilled"
    /\ currentChord # Null
    /\ selectionCommand # Null

\* C18: a step of softDispatch resolves the event with the chord in progress
\* (if any) as prefix and changes neither the chord, the checker, the status
\* notification nor the selection command; it calls no command and shows no
\* notification.
C18_SoftDispatchFrame ==
    [][lastOp'.op = "softDispatch" =>
          /\ UNCHANGED <<chordVars, selectionCommand, executing, hasFocus, gesture>>
          /\ UNCHANGED widgets
          /\ lastOp'.calls = <<>>
          /\ lastOp'.telemetry = <<>>
          /\ lastOp'.notes = <<>>
          /\ \A i \in DOMAIN lastOp'.queries :
                lastOp'.queries[i].currentChord =
                    (IF currentChord = Null THEN Null ELSE Some(Val(currentChord).keypress))
      ]_vars

\* C18 witness: softDispatch of ctrl+K in Idle returned an outcome with
\* enterChord = true and the engine is Idle.
C18_Witness ==
    /\ lastOp.op = "softDispatch"
    /\ ResolvedToEnterChord
    /\ Idle

\* The last handler run was a mouse-down that reached the selection path.
SelectionPath == lastOp.op = "mouseDown" /\ lastOp.ret # "Mouse"

\* The last resolver query of the last handler run.
LastQuery == lastOp.queries[Len(lastOp.queries)]

\* C19: a mouse-down that reaches the selection path resolves the selection
\* binding built from the event's modifiers and button and stores the
\* outcome as the selection command, whatever was stored before; it returns
\* Selection exactly when a rule matched, which is exactly when the selection
\* command is not null, and None otherwise; it calls no command.
C19_GestureStart ==
    SelectionPath =>
        /\ lastOp.queries # <<>>
        /\ LastQuery.keypress = MouseDispatchString(EventSelectionBinding(LastMouse))
        /\ lastOp.result \in
               {Resolve(c, LastQuery.currentChord, LastQuery.keypress) : c \in Contexts}
        /\ selectionCommand = lastOp.result
        /\ lastOp.ret = (IF selectionCommand # Null THEN "Selection" ELSE "None")
        /\ lastOp.calls = <<>>

\* C19 witness: a mouse-down that matched no selection rule was made while a
\* selection command was stored: it returned None and nothing is stored.
C19_Witness ==
    /\ SelectionPath
    /\ lastOp.preSel # Null
    /\ lastOp.ret = "None"
    /\ selectionCommand = Null

\* The last handler run was the dispatch of an auto-repeat key-down event.
DispatchedRepeat == Dispatched /\ lastOp.repeat

\* C20: the dispatch of an auto-repeat key-down event does not query the
\* resolver, leaves the chord, the checker's elapsed time and the status
\* notification as they were (it neither completes nor misses a chord in
\* progress, and does not enter chord mode), shows no notification and
\* calls no command.
C20_RepeatFiltered ==
    DispatchedRepeat =>
        /\ lastOp.queries = <<>>
        /\ currentChord = lastOp.preChord
        /\ Elapsed = lastOp.preElapsed
        /\ (currentChordStatusMessage # Null) <=> (lastOp.preChord # Null)
        /\ lastOp.notes = <<>>
        /\ lastOp.calls = <<>>

(***************************************************************************)
(* The functions of the bindings (mouseButtons.ts), applied to bindings    *)
(* drawn from MouseBindings and SelectionBindings. lastOp records the      *)
(* application; the service is not involved and stays as constructed.      *)
(***************************************************************************)
\* The buttons of enum MouseButton.
MouseButtons == {MouseButtonLeft, MouseButtonMiddle, MouseButtonRight}

\* Every MouseBinding: times is optional (times?: number), so it may be
\* undefined.
MouseBindings ==
    {[MouseBinding(c, s, a, m, b, 1) EXCEPT !.times = t] :
        c \in BOOLEAN, s \in BOOLEAN, a \in BOOLEAN, m \in BOOLEAN, b \in MouseButtons,
        t \in {Null} \cup {Some(n) : n \in 1..MaxTimes}}

\* Every SelectionBinding.
SelectionBindings ==
    {SelectionBinding(c, s, a, m, b) :
        c \in BOOLEAN, s \in BOOLEAN, a \in BOOLEAN, m \in BOOLEAN, b \in MouseButtons}

\* BaseMouseBinding.equals(other): the four modifier flags and the button.
BaseEquals(this, other) ==
    /\ this.ctrlKey = other.ctrlKey
    /\ this.shiftKey = other.shiftKey
    /\ this.altKey = other.altKey
    /\ this.metaKey = other.metaKey
    /\ this.button = other.button

\* this.equals(other). MouseBinding: super.equals(other) && this.times ===
\* other.times, where other.times of a SelectionBinding is undefined.
\* SelectionBinding: super.equals(other). Neither looks at the kind of other.
Equals(this, other) ==
    IF this.type = "mouse"
    THEN BaseEquals(this, other) /\ this.times = other.times
    ELSE BaseEquals(this, other)

\* "this.ctrlKey ? '1' : '0'"
FlagDigit(flag) == IF flag THEN "1" ELSE "0"

\* BaseMouseBinding.getHashCode(): `${ctrl}${shift}${alt}${meta}${this.button}`
BaseHashCode(this) ==
    FlagDigit(this.ctrlKey) \o FlagDigit(this.shiftKey) \o FlagDigit(this.altKey)
        \o FlagDigit(this.metaKey) \o ToString(this.button)

\* `${this.times}` of a times that may be undefined.
TimesString(times) == IF times = Null THEN "undefined" ELSE ToString(Val(times))

\* getHashCode(). MouseBinding: `${this.times}m` + super.getHashCode().
\* SelectionBinding: 's' + super.getHashCode().
HashCode(this) ==
    IF this.type = "mouse"
    THEN TimesString(this.times) \o "m" \o BaseHashCode(this)
    ELSE "s" \o BaseHashCode(this)

\* Nothing has been applied yet: each behaviour applies one function, once,
\* to one choice of arguments.
Fresh == lastOp = NoOp

\* const ariaButtonToStr = ['LMB', 'MMB', 'RMB'];
ariaButtonToStr == <<"LMB", "MMB", "RMB">>

\* const userSettingsButtonToStr = ['left', 'middle', 'right'];
userSettingsButtonToStr == <<"left", "middle", "right">>

\* uiStrToButton, ariaStrToButton and userSettingsStrToButton: the button
\* each table holds under each of its keys.
StrToButton ==
    [ui |-> [str \in {"LMB", "MMB", "RMB"} |->
                CASE str = "LMB" -> MouseButtonLeft [] str = "MMB" -> MouseButtonMiddle
                  [] str = "RMB" -> MouseButtonRight],
     aria |-> [str \in {"LMB", "MMB", "RMB"} |->
                CASE str = "LMB" -> MouseButtonLeft [] str = "MMB" -> MouseButtonMiddle
                  [] str = "RMB" -> MouseButtonRight],
     userSettings |-> [str \in {"left", "middle", "right"} |->
                CASE str = "left" -> MouseButtonLeft [] str = "middle" -> MouseButtonMiddle
                  [] str = "right" -> MouseButtonRight]]

\* String.prototype.toLowerCase on the button names.
ToLowerCase(str) ==
    CASE str = "LMB" -> "lmb" [] str = "MMB" -> "mmb" [] str = "RMB" -> "rmb"
      [] OTHER -> str

\* MouseButtonUtils.fromString(toString(button)),
\* fromAriaString(toAriaString(button)) and
\* fromUserSettingsString(toUserSettingsString(button)): each from-function
\* looks the lower-cased string up in its table; Null is undefined, the
\* value of a key the table does not hold.
MouseButtonRoundTrips(button) ==
    LET Lookup(table, str) ==
            IF ToLowerCase(str) \in DOMAIN table THEN Some(table[ToLowerCase(str)]) ELSE Null
    IN  [fromString |-> Lookup(StrToButton.ui, MouseButtonToString(button)),
         fromAriaString |-> Lookup(StrToButton.aria, ariaButtonToStr[button + 1]),
         fromUserSettingsString |->
             Lookup(StrToButton.userSettings, userSettingsButtonToStr[button + 1])]

\* b1.equals(b2), the two hash codes, the two resolved bindings and the
\* strings of b1's button taken there and back.
CompareBindings(b1, b2) ==
    /\ Fresh
    /\ lastOp' = [op |-> "compare", b1 |-> b1, b2 |-> b2,
                  equals |-> Equals(b1, b2),
                  hash1 |-> HashCode(b1), hash2 |-> HashCode(b2),
                  resolved1 |-> ResolvedMouseBinding(b1),
                  resolved2 |-> ResolvedMouseBinding(b2),
                  strings |-> MouseButtonRoundTrips(b1.button)]
    /\ UNCHANGED <<chordVars, selectionCommand, hasFocus, executing, gesture>>
    /\ UNCHANGED widgets

BindingsNext ==
    /\ Fresh
    /\ \E b1 \in MouseBindings \cup SelectionBindings,
          b2 \in MouseBindings \cup SelectionBindings : CompareBindings(b1, b2)

BindingsSpec == Init /\ [][BindingsNext]_vars

\* The last step compared two bindings.
Compared == lastOp.op = "compare"

\* C21: b1.equals(b2) holds exactly when b1 and b2 are of the same kind with
\* the same four modifier flags, button and (for mouse bindings) click count,
\* and the hash codes of b1 and b2 are equal exactly when b1.equals(b2).
C21_EqualsAndHash ==
    Compared =>
        /\ lastOp.equals <=> (lastOp.b1 = lastOp.b2)
        /\ (lastOp.hash1 = lastOp.hash2) <=> lastOp.equals

\* The dispatch strings of the keyboard bindings: every modifier combination
\* with every key of the model, and with the names of the mouse buttons taken
\* as keys.
KeyboardDispatchStrings ==
    {Modifiers(KeyboardEvent(c, s, a, m, k), "ctrl+", "shift+", "alt+", "meta+") \o k :
        c \in BOOLEAN, s \in BOOLEAN, a \in BOOLEAN, m \in BOOLEAN,
        k \in {e.keyCode : e \in KeyboardEvents} \cup {"LMB", "MMB", "RMB"}}
        \ {Modifiers(KeyboardEvent(c, s, a, m, k), "ctrl+", "shift+", "alt+", "meta+") \o k :
              c \in BOOLEAN, s \in BOOLEAN, a \in BOOLEAN, m \in BOOLEAN, k \in ModifierKeys}

\* The dispatch string the grammar gives binding b: the prefix of its kind,
\* the held modifiers in the order ctrl+, shift+, alt+, meta+, the button.
GrammarString(b) ==
    (IF b.type = "mouse" THEN "mouse " ELSE "selection ")
        \o (IF b.ctrlKey THEN "ctrl+" ELSE "") \o (IF b.shiftKey THEN "shift+" ELSE "")
        \o (IF b.altKey THEN "alt+" ELSE "") \o (IF b.metaKey THEN "meta+" ELSE "")
        \o (CASE b.button = MouseButtonLeft -> "LMB"
              [] b.button = MouseButtonMiddle -> "MMB"
              [] b.button = MouseButtonRight -> "RMB")

\* The resolved binding r of binding b has one dispatch part, the string of
\* the grammar, and is no chord.
WellFormedDispatch(b, r) ==
    /\ ~r.chord
    /\ r.dispatchParts = <<Some(GrammarString(b))>>
    /\ Val(r.dispatchParts[1]) \notin KeyboardDispatchStrings

\* C22: a resolved mouse or selection binding is no chord and has one
\* dispatch part: "mouse " or "selection ", the held modifiers in the order
\* ctrl+, shift+, alt+, meta+, and the button. A click binding and a
\* selection binding never have the same dispatch string, and neither has
\* the dispatch string of a keyboard binding.
C22_DispatchString ==
    Compared =>
        /\ WellFormedDispatch(lastOp.b1, lastOp.resolved1)
        /\ WellFormedDispatch(lastOp.b2, lastOp.resolved2)
        /\ lastOp.b1.type # lastOp.b2.type =>
               lastOp.resolved1.dispatchParts # lastOp.resolved2.dispatchParts

\* C22 witness: a click binding and a selection binding, both of the right
\* button with all four modifiers, were resolved.
C22_Witness ==
    /\ Compared
    /\ lastOp.b1 = MouseBinding(TRUE, TRUE, TRUE, TRUE, MouseButtonRight, 1)
    /\ lastOp.b2 = SelectionBinding(TRUE, TRUE, TRUE, TRUE, MouseButtonRight)
    /\ lastOp.resolved1.dispatchParts = <<Some("mouse ctrl+shift+alt+meta+RMB")>>
    /\ lastOp.resolved2.dispatchParts = <<Some("selection ctrl+shift+alt+meta+RMB")>>

\* The future of an executor call settled.
Settled == lastOp.op = "settle"

\* C23: one "action executed" event with the command id is recorded per
\* successful command invocation: a handler records events only for the
\* executor calls it makes, one each with the id of the call, and no event
\* has been recorded for an invocation that failed.
C23_TelemetryPerSuccess ==
    /\ lastOp.op \in {"dispatch", "mouseDown", "completeSelection", "cancelSelection",
                      "softDispatch"} =>
           /\ Len(lastOp.telemetry) = Len(lastOp.calls)
           /\ \A i \in DOMAIN lastOp.calls : lastOp.telemetry[i] = lastOp.calls[i].commandId
    /\ Settled /\ ExecutorRejected => ~lastOp.logged

(***************************************************************************)
(* Substitution of caller data into a rule's argument template: the        *)
(* variant of the service that passes arguments to the executor.           *)
(***************************************************************************)
\* The longest property path of a placeholder.
MaxPath == 2

\* JavaScript values: undefined, a string, an object with the properties
\* PropertyNames (a property that is absent reads as undefined).
Undefined == [kind |-> "undefined"]
Str(v) == [kind |-> "string", v |-> v]
Obj(props) == [kind |-> "object", props |-> props]
PropertyNames == {"a", "b"}

\* The caller's arguments: undefined, or an object whose properties are
\* absent, strings, or objects whose properties are absent or strings.
InnerObjects == {Obj(f) : f \in [PropertyNames -> {Undefined, Str("x")}]}
Objects == {Obj(f) : f \in [PropertyNames -> {Undefined, Str("x")} \cup InnerObjects]}
CallerArgs == {Undefined} \cup Objects

\* A template is a string, held as its segments: literal text and ${path}
\* placeholders, a path being the property names between the dots.
Lit(text) == [placeholder |-> FALSE, text |-> text, path |-> <<>>]
Hole(path) == [placeholder |-> TRUE, text |-> "", path |-> path]
Paths == UNION {[1..n -> PropertyNames] : n \in 1..MaxPath}
Templates ==
    {<<Lit("go ")>>} \cup {<<Hole(p)>> : p \in Paths} \cup {<<Lit("go "), Hole(p)>> : p \in Paths}

\* resolveResult.commandArgs: undefined, one template, or an array of one.
CommandArgs ==
    {[kind |-> "undefined", items |-> <<>>]}
        \cup {[kind |-> "string", items |-> <<t>>] : t \in Templates}
        \cup {[kind |-> "array", items |-> <<t>>] : t \in Templates}

RECURSIVE JoinPath(_)
\* The path as written in the template: the names joined by dots.
JoinPath(path) ==
    IF Len(path) = 1 THEN path[1] ELSE path[1] \o "." \o JoinPath(Tail(path))

RECURSIVE SourceText(_)
\* The template as the string the rule holds.
SourceText(template) ==
    IF template = <<>> THEN ""
    ELSE (IF Head(template).placeholder
          THEN "${" \o JoinPath(Head(template).path) \o "}"
          ELSE Head(template).text) \o SourceText(Tail(template))

\* obj[property]: a TypeError on undefined, undefined on a string (the
\* names of the model are no properties of a string), the property of an
\* object.
GetProperty(obj, property) ==
    CASE obj.kind = "undefined" -> [threw |-> TRUE, value |-> Undefined]
      [] obj.kind = "string" -> [threw |-> FALSE, value |-> Undefined]
      [] obj.kind = "object" -> [threw |-> FALSE, value |-> obj.props[property]]

RECURSIVE peekObjectProperty(_, _)
\* peekObjectProperty(obj, property): property.split('.').reduce((obj,
\* property) => obj[property], obj), property held as the split path.
peekObjectProperty(obj, path) ==
    IF path = <<>> THEN [threw |-> FALSE, value |-> obj]
    ELSE LET step == GetProperty(obj, Head(path))
         IN  IF step.threw THEN step ELSE peekObjectProperty(step.value, Tail(path))

\* String(value), as String.prototype.replace converts what its callback
\* returns.
ToJsString(value) ==
    CASE value.kind = "undefined" -> "undefined"
      [] value.kind = "string" -> value.v
      [] value.kind = "object" -> "[object Object]"

RECURSIVE parseArg(_, _)
\* parseArg(commandArg, args): every ${path} replaced by the string of
\* peekObjectProperty(args, path); a throw of the callback leaves replace.
parseArg(template, args) ==
    IF template = <<>> THEN [threw |-> FALSE, value |-> ""]
    ELSE LET rest == parseArg(Tail(template), args)
             peek == peekObjectProperty(args, Head(template).path)
         IN  IF ~Head(template).placeholder
             THEN [rest EXCEPT !.value = Head(template).text \o @]
             ELSE IF peek.threw \/ rest.threw THEN [threw |-> TRUE, value |-> ""]
             ELSE [rest EXCEPT !.value = ToJsString(peek.value) \o @]

\* parseArgs(commandArgs, args): undefined for no template, the templates
\* as they are for no arguments, else parseArg of the template or of each
\* element of the array. value is Null for undefined, else the strings.
parseArgs(commandArgs, args) ==
    IF commandArgs.kind = "undefined" THEN [threw |-> FALSE, value |-> Null]
    ELSE IF args = Undefined
    THEN [threw |-> FALSE,
          value |-> Some([kind |-> commandArgs.kind,
                          items |-> [i \in DOMAIN commandArgs.items |->
                                        SourceText(commandArgs.items[i])]])]
    ELSE LET parsed == [i \in DOMAIN commandArgs.items |-> parseArg(commandArgs.items[i], args)]
         IN  IF \E i \in DOMAIN parsed : parsed[i].threw
             THEN [threw |-> TRUE, value |-> Null]
             ELSE [threw |-> FALSE,
                   value |-> Some([kind |-> commandArgs.kind,
                                   items |-> [i \in DOMAIN parsed |-> parsed[i].value]])]

\* _executeCommand(resolveResult, args) of the variant: parseArgs in a try
\* block whose catch warns 'invalidArg' and returns Promise.resolve(); then
\* the event is logged and the executor called with the parsed arguments.
ExecuteCommandWithArgs(commandId, commandArgs, args) ==
    LET parsed == parseArgs(commandArgs, args)
    IN  IF parsed.threw
        THEN [calls |-> <<>>, telemetry |-> <<>>,
              notes |-> <<Note("warn", Some("invalidArg"), Null)>>, ret |-> "fulfilled"]
        ELSE [calls |-> <<[commandId |-> commandId, args |-> parsed.value]>>,
              telemetry |-> <<commandId>>, notes |-> <<>>, ret |-> "pending"]

\* One run of _executeCommand for a rule with the template commandArgs and
\* the caller's arguments args, in the service as constructed.
ExecuteWithArgs(commandArgs, args) ==
    /\ Fresh
    /\ \E x \in {ExecuteCommandWithArgs("run", commandArgs, args)} :
           lastOp' = [op |-> "execute", commandArgs |-> commandArgs, args |-> args,
                      calls |-> x.calls, telemetry |-> x.telemetry, notes |-> x.notes,
                      ret |-> x.ret]
    /\ UNCHANGED <<chordVars, selectionCommand, hasFocus, executing, gesture>>
    /\ UNCHANGED widgets

ArgsNext ==
    /\ Fresh
    /\ \E commandArgs \in CommandArgs, args \in CallerArgs : ExecuteWithArgs(commandArgs, args)

ArgsSpec == Init /\ [][ArgsNext]_vars

\* _executeCommand ran with a template and arguments.
ExecutedWithArgs == lastOp.op = "execute"

RECURSIVE Found(_, _)
\* The path names a property that is found in value: every name on the way
\* is a property, present, of an object.
Found(value, path) ==
    \/ path = <<>>
    \/ /\ value.kind = "object"
       /\ value.props[Head(path)] # Undefined
       /\ Found(value.props[Head(path)], Tail(path))

\* Some placeholder of the template names a property that cannot be found
\* in the caller's arguments.
SubstitutionFails(commandArgs, args) ==
    /\ args # Undefined
    /\ \E i \in DOMAIN commandArgs.items : \E j \in DOMAIN commandArgs.items[i] :
           /\ commandArgs.items[i][j].placeholder
           /\ ~Found(args, commandArgs.items[i][j].path)

\* C24: when a ${path} placeholder of the rule's template names a property
\* that cannot be found in the caller's arguments, a warning is shown, the
\* executor is not invoked, no "action executed" event is recorded, and the
\* returned promise is fulfilled.
C24_SubstitutionFailure ==
    ExecutedWithArgs /\ SubstitutionFails(lastOp.commandArgs, lastOp.args) =>
        /\ lastOp.notes = <<Note("warn", Some("invalidArg"), Null)>>
        /\ lastOp.calls = <<>>
        /\ lastOp.telemetry = <<>>
        /\ lastOp.ret = "fulfilled"

\* A keybinding of two parts was handed to dispatchEvent or softDispatch.
LookedUpChord ==
    /\ lastOp.op \in {"dispatch", "softDispatch"}
    /\ Val(lastOp.kb).chord

\* C25: a keyboard event that resolves to a keybinding of two parts is
\* handled softly: a warning is logged, the resolver is not queried, the
\* lookup gives no match, no command is executed, and the handler returns
\* normally.
C25_ChordKeybindingSoft ==
    LookedUpChord =>
        /\ lastOp.warned
        /\ lastOp.queries = <<>>
        /\ lastOp.result = Null
        /\ lastOp.calls = <<>>
        /\ lastOp.telemetry = <<>>
        /\ lastOp.ret = (IF Dispatched THEN (IF lastOp.preChord # Null THEN "true" ELSE "false")
                         ELSE "result")

\* C25 witness: dispatchEvent was handed the two-part keybinding in Idle,
\* logged the warning and left the service in Idle.
C25_Witness ==
    /\ Dispatched
    /\ LastKb = ChordKeybinding
    /\ lastOp.preChord = Null
    /\ lastOp.warned
    /\ currentChord = Null

(***************************************************************************)
(* mightProducePrintableCharacter.                                         *)
(***************************************************************************)
\* The largest key code of the events handed to the function.
MaxKeyCode == 60

\* KeyCode.KEY_0, KEY_9, KEY_A, KEY_Z.
KEY_0 == 21
KEY_9 == 30
KEY_A == 31
KEY_Z == 56

\* The events handed to mightProducePrintableCharacter.
PrintableEvents ==
    {KeyboardEvent(c, s, a, m, k) :
        c \in BOOLEAN, s \in BOOLEAN, a \in BOOLEAN, m \in BOOLEAN, k \in 0..MaxKeyCode}

\* mightProducePrintableCharacter as it would be if it tested ctrlKey alone.
MightProducePrintableIgnoringMeta(event) ==
    IF event.ctrlKey THEN FALSE
    ELSE \/ event.keyCode >= KEY_A /\ event.keyCode <= KEY_Z
         \/ event.keyCode >= KEY_0 /\ event.keyCode <= KEY_9

\* mightProducePrintableCharacter(event)
MightProducePrintable(event) ==
    IF event.ctrlKey \/ event.metaKey THEN FALSE
    ELSE \/ event.keyCode >= KEY_A /\ event.keyCode <= KEY_Z
         \/ event.keyCode >= KEY_0 /\ event.keyCode <= KEY_9

\* One call of mightProducePrintableCharacter(event): no field is assigned.
MightProducePrintableCharacter(event) ==
    /\ lastOp' = [op |-> "printable", event |-> event, ret |-> MightProducePrintable(event)]
    /\ UNCHANGED <<chordVars, selectionCommand, hasFocus, executing, gesture>>
    /\ UNCHANGED widgets

\* The service after at most one keyboard or mouse event, then one call of
\* mightProducePrintableCharacter.
PrintableNext ==
    \/ /\ Fresh
       /\ \E kb \in KeyboardKeybindings, c \in Contexts : DispatchEvent(kb, FALSE, c)
    \/ /\ Fresh
       /\ \E e \in MouseEvents, n \in BOOLEAN, c \in Contexts : OnEditorMouseDown(e, n, c)
    \/ /\ lastOp.op # "printable"
       /\ \E event \in PrintableEvents : MightProducePrintableCharacter(event)

PrintableSpec == Init /\ [][PrintableNext]_vars

\* C26: mightProducePrintableCharacter returns false whenever ctrl or meta
\* is held, and otherwise true exactly for the key codes of A..Z and 0..9,
\* whatever shift and alt are and whatever state the service is in; the call
\* changes no field of the service.
C26_PrintableCharacter ==
    [][lastOp'.op = "printable" =>
           /\ lastOp'.event.ctrlKey \/ lastOp'.event.metaKey => ~lastOp'.ret
           /\ ~lastOp'.event.ctrlKey /\ ~lastOp'.event.metaKey =>
                  (lastOp'.ret <=> lastOp'.event.keyCode \in (KEY_A..KEY_Z) \cup (KEY_0..KEY_9))
           /\ UNCHANGED <<chordVars, selectionCommand, hasFocus, executing, gesture>>]_vars

\* C26 witness: with a chord in progress, the function was called for the
\* key Z with shift and alt held and answered true.
C26_Witness ==
    /\ lastOp.op = "printable"
    /\ currentChord # Null
    /\ lastOp.event = KeyboardEvent(FALSE, TRUE, TRUE, FALSE, KEY_Z)
    /\ lastOp.ret

\* dispatchEvent was handed, with a chord in progress, a keybinding whose
\* first dispatch part is null (only modifier keys are down).
DispatchedModifierInChord ==
    /\ DispatchedInChord
    /\ ~LastKb.chord
    /\ LastKb.dispatchParts[1] = Null

\* C27: a key event with no dispatch part that is dispatched while a chord
\* is in progress leaves the chord and its timer as they were, shows no
\* notification and is not consumed (so that the second key of the chord
\* can still follow).
C27_ModifierKeepsChord ==
    DispatchedModifierInChord =>
        /\ currentChord = lastOp.preChord
        /\ Elapsed = lastOp.preElapsed
        /\ lastOp.notes = <<>>
        /\ lastOp.ret = "false"

\* C28: the command executor is never invoked with an absent command id: a
\* resolve outcome without command id (a removed rule, an outcome that only
\* enters a chord) leads to no executor call on any path.
C28_NoAbsentCommand ==
    /\ \A i \in DOMAIN lastOp.calls : lastOp.calls[i].commandId # Null
    /\ lastOp.op \in {"dispatch", "mouseDown"} /\ lastOp.result # Null
           /\ Val(lastOp.result).commandId = Null => lastOp.calls = <<>>

\* C29: when onEditorMouseDown has returned Mouse or None, no pending
\* selection remains: a later completeSelection cannot execute a command
\* that an earlier mouse-down captured.
C29_NoStaleSelection ==
    lastOp.op = "mouseDown" /\ lastOp.ret \in {"Mouse", "None"} => selectionCommand = Null

(***************************************************************************)
(* Progress: the wall clock advances and the interval timer keeps running  *)
(* its callback while a checker is scheduled.                              *)
(***************************************************************************)
LiveSpec == Spec /\ WF_vars(Advance \/ CheckerTick)

\* inChordMode: a chord is in progress.
InChordMode == currentChord # Null

\* C30: the service is in chord mode exactly when the checker is scheduled
\* and a chord status notification is live, and a chord in progress always
\* ends: while time passes and the checker keeps running, the service does
\* not stay in chord mode forever.
C30_ChordEnds ==
    /\ [](InChordMode <=> (currentChordChecker # Null /\ currentChordStatusMessage # Null
                              /\ liveStatus > 0))
    /\ InChordMode ~> ~InChordMode

\* C30 witness: a run of the checker found the document without focus and
\* ended the chord in progress: no chord, no checker, no notification.
C30_Witness ==
    /\ Ticked
    /\ lastOp.preChord # Null
    /\ ~lastOp.preFocus
    /\ ~InChordMode
    /\ currentChordChecker = Null
    /\ currentChordStatusMessage = Null
    /\ liveStatus = 0

(***************************************************************************)
(* Re-entrant input: an event handled from inside the executor call that   *)
(* another handler makes.                                                  *)
(***************************************************************************)
\* The events a handler is run for: a key dispatch, a mouse-down, the end of
\* a selection gesture.
DispatchInput(kb, c) ==
    [kind |-> "dispatch", kb |-> Some(kb), mouse |-> Null, enableNonSelections |-> FALSE,
     contextValue |-> c]
MouseDownInput(e, n, c) ==
    [kind |-> "mouseDown", kb |-> Null, mouse |-> Some(e), enableNonSelections |-> n,
     contextValue |-> c]
CompleteInput ==
    [kind |-> "completeSelection", kb |-> Null, mouse |-> Null, enableNonSelections |-> FALSE,
     contextValue |-> {}]
Inputs ==
    {DispatchInput(kb, c) : kb \in KeyboardKeybindings, c \in Contexts}
        \cup {MouseDownInput(e, n, c) : e \in MouseEvents, n \in BOOLEAN, c \in Contexts}
        \cup {CompleteInput}

\* The chord fields and _selectionCommand.
EngineState == [cs |-> ChordState, sel |-> selectionCommand]

\* The handler of input run on the fields st, up to its return when it makes
\* no executor call, and up to its executor call when it makes one (every
\* assignment of _doDispatch, onEditorMouseDown and completeSelection stands
\* before the call of _executeCommand): the fields then, and the calls.
HandlerOn(input, st) ==
    CASE input.kind = "dispatch" ->
             LET d == DoDispatch(Val(input.kb), input.contextValue, st.cs, st.sel)
             IN  [st |-> [cs |-> d.cs, sel |-> st.sel], calls |-> d.calls, ret |-> d.ret]
      [] input.kind = "mouseDown" ->
             LET d == MouseDown(Val(input.mouse), input.enableNonSelections,
                                input.contextValue, st.cs.chord, st.sel)
             IN  [st |-> [cs |-> st.cs, sel |-> d.sel], calls |-> d.calls, ret |-> d.ret]
      [] input.kind = "completeSelection" ->
             LET d == Complete(st.cs.chord, st.sel)
             IN  [st |-> [cs |-> st.cs, sel |-> d.sel], calls |-> d.calls, ret |-> d.ret]

\* The rest of a handler as it would be if chord mode were left and the
\* pending selection cleared after the executor call.
AfterExecutorClearing(st) == [cs |-> LeaveChordMode(st.cs), sel |-> Null]

\* The rest of a handler after its call of _executeCommand has returned, run
\* on the fields st: _doDispatch assigns the local shouldPreventDefault and
\* returns it, onEditorMouseDown returns Mouse, completeSelection returns the
\* promise; no field is assigned.
AfterExecutor(st) == st

\* The handler of outer runs, and from inside its executor call the handler
\* of inner runs to its end; then the outer handler returns.
ReentrantHandler(outer, inner) ==
    \E o \in {HandlerOn(outer, EngineState)} :
        /\ o.calls # <<>>
        /\ \E i \in {HandlerOn(inner, o.st)} :
               \E final \in {AfterExecutor(i.st)} :
                   /\ SetChordState(final.cs)
                   /\ selectionCommand' = final.sel
                   /\ executing' = Launch(o.calls \o i.calls)
                   /\ lastOp' = [op |-> "reentrant", outer |-> outer, inner |-> inner,
                                 atCall |-> o.st, innerState |-> i.st, innerRet |-> i.ret,
                                 ret |-> o.ret]
                   /\ gesture' = IF i.ret = "Selection"
                                 THEN [phase |-> "pressed", command |-> i.st.sel, runs |-> 0]
                                 ELSE IF i.ret = "None" THEN NoGesture
                                 ELSE IF outer.kind = "completeSelection"
                                      THEN [gesture EXCEPT
                                               !.phase = IF @ = "pressed" THEN "completed" ELSE @,
                                               !.runs = @ + 1]
                                      ELSE gesture
        /\ UNCHANGED hasFocus
        /\ UNCHANGED widgets

\* The service after at most one event, then one handler with a re-entrant
\* event in its executor call.
ReentrantNext ==
    \/ /\ Fresh
       /\ \E kb \in KeyboardKeybindings, c \in Contexts : DispatchEvent(kb, FALSE, c)
    \/ /\ Fresh
       /\ \E e \in MouseEvents, n \in BOOLEAN, c \in Contexts : OnEditorMouseDown(e, n, c)
    \/ /\ lastOp.op # "reentrant"
       /\ \E outer \in Inputs, inner \in Inputs \ {CompleteInput} :
              ReentrantHandler(outer, inner)

ReentrantSpec == Init /\ [][ReentrantNext]_vars

\* A handler returned after a re-entrant event was handled inside its
\* executor call.
Reentered == lastOp.op = "reentrant"

\* C31: once a handler has invoked the executor it writes no chord or
\* selection state: what a re-entrant dispatch or mouse-down made from
\* inside the executor call has set is in place when the outer handler
\* returns.
C31_ReentrantStateKept ==
    Reentered =>
        /\ ChordState = lastOp.innerState.cs
        /\ selectionCommand = lastOp.innerState.sel

\* C31 witness: a key dispatch called the executor with no chord in
\* progress; the re-entrant dispatch of ctrl+k entered chord mode, and that
\* chord is in progress when the outer dispatch has returned.
C31_Witness ==
    /\ Reentered
    /\ lastOp.outer.kind = "dispatch"
    /\ lastOp.atCall.cs.chord = Null
    /\ lastOp.inner.kind = "dispatch"
    /\ lastOp.innerRet = "true"
    /\ lastOp.innerState.cs.chord # Null
    /\ currentChord = Some([keypress |-> "ctrl+k", label |-> Some("Ctrl+K")])

\* The last handler run was onEditorMouseDown.
MouseDowned == lastOp.op = "mouseDown"

\* The resolver has a match for the click binding of the last mouse-down.
ClickRuleMatches == lastOp.clickResult # Null

\* C32: on mouse-down a click rule takes precedence over a selection rule.
\* With click bindings enabled and a click rule matching, the click command
\* is executed at once, Mouse is returned and the selection binding is not
\* resolved; with click bindings disabled the click binding is not resolved,
\* nothing is executed and only the selection binding is resolved.
C32_ClickPrecedence ==
    MouseDowned =>
        /\ lastOp.enableNonSelections /\ ClickRuleMatches =>
               /\ lastOp.ret = "Mouse"
               /\ Len(lastOp.calls) = 1
               /\ lastOp.calls[1].commandId = Val(lastOp.clickResult).commandId
               /\ Len(lastOp.queries) = 1
               /\ lastOp.queries[1].keypress = MouseDispatchString(EventMouseBinding(LastMouse))
        /\ ~lastOp.enableNonSelections =>
               /\ lastOp.ret # "Mouse"
               /\ lastOp.calls = <<>>
               /\ Len(lastOp.queries) = 1
               /\ lastOp.queries[1].keypress =
                      MouseDispatchString(EventSelectionBinding(LastMouse))

\* C32 witness: a mouse-down of alt + left button, for which a click rule
\* and a selection rule both match, executed the click command with click
\* bindings enabled and stored no selection.
C32_Witness ==
    /\ MouseDowned
    /\ lastOp.enableNonSelections
    /\ LastMouse = MouseEvent(FALSE, TRUE, MouseButtonLeft, 1)
    /\ Executed("addCursor")
    /\ lastOp.ret = "Mouse"
    /\ selectionCommand = Null

\* The last handler run was one of the selection tracker: onEditorMouseDown,
\* completeSelection or cancelSelection.
SelectionHandler == lastOp.op \in {"mouseDown", "completeSelection", "cancelSelection"}

\* The last handler run was one of the chord state machine: a key dispatch
\* or a run of the checker.
ChordHandler == lastOp.op \in {"dispatch", "tick"}

\* C33: the two state machines do not write each other's state:
\* onEditorMouseDown, completeSelection and cancelSelection leave the chord,
\* the checker and the status notification as they were, and a key dispatch
\* and a run of the checker leave the pending selection as it was.
C33_SeparateState ==
    [][/\ SelectionHandler' => UNCHANGED chordVars
       /\ ChordHandler' => UNCHANGED selectionCommand]_vars

\* C33 witness: a mouse-down replaced the pending selection while a chord
\* was in progress, and the chord is still in progress with its checker
\* and its notification.
C33_Witness ==
    /\ SelectionHandler
    /\ lastOp.op = "mouseDown"
    /\ lastOp.preChord # Null
    /\ lastOp.preSel # Null
    /\ selectionCommand = Null
    /\ currentChord = lastOp.preChord
    /\ currentChordChecker # Null
    /\ liveStatus = 1

(***************************************************************************)
(* GlobalMouseMoveMonitor: one monitoring session at a time, ended by a    *)
(* mouse-up, a change of the pressed buttons, stopMonitoring or dispose.   *)
(***************************************************************************)
\* The callbacks handed to one call of startMonitoring: session numbers the
\* call; onCancelCallback and onCompleteCallback are optional; restart names
\* the callback ("cancel", "complete", "stop" or "none") that calls
\* startMonitoring again when it runs.
Callbacks(session, hasCancel, hasComplete, restart) ==
    [session |-> session, hasCancel |-> hasCancel, hasComplete |-> hasComplete,
     restart |-> restart]

\* startMonitoring(initialElement, initialButtons, merger, callbacks...) on
\* the monitor m: ignored while monitoring; else the callbacks are stored and
\* the listeners hooked.
StartOn(m, initialButtons, cbs) ==
    IF m.callbacks # Null THEN [m EXCEPT !.started = @ + 1]
    ELSE [m EXCEPT !.started = @ + 1, !.callbacks = Some(cbs),
                   !.initialButtons = initialButtons,
                   !.hooks = @ \cup {cbs.session}, !.begun = @ \cup {cbs.session}]

\* One end-of-session callback of cbs is invoked from the stopMonitoring
\* call numbered m.stops: it is logged with the callbacks stored then
\* (isMonitoring() answers whether there are any), and it calls
\* startMonitoring if it is the one that restarts.
Invoke(m, cbs, name) ==
    LET logged == [m EXCEPT !.log = Append(@, [session |-> cbs.session, callback |-> name,
                                               stored |-> m.callbacks,
                                               stopCall |-> m.stops])]
    IN  IF cbs.restart = name /\ logged.started < MaxSessions
        THEN StartOn(logged, logged.initialButtons,
                     Callbacks(logged.started + 1, TRUE, TRUE, "none"))
        ELSE logged

\* stopMonitoring as it would be if it did not clear the callbacks.
StopOnKeepCallbacks(m, invokeStopCallback, completed) ==
    IF m.callbacks = Null THEN m
    ELSE LET cbs == Val(m.callbacks)
             counted == [m EXCEPT !.stops = @ + 1]
             ended == IF completed /\ cbs.hasComplete THEN Invoke(counted, cbs, "complete")
                      ELSE IF ~completed /\ cbs.hasCancel THEN Invoke(counted, cbs, "cancel")
                      ELSE counted
         IN  IF invokeStopCallback THEN Invoke(ended, cbs, "stop") ELSE ended

\* stopMonitoring as it would be if it invoked the stop callback first.
StopOnStopFirst(m, invokeStopCallback, completed) ==
    IF m.callbacks = Null THEN m
    ELSE LET cbs == Val(m.callbacks)
             cleared == [m EXCEPT !.hooks = {}, !.callbacks = Null, !.stops = @ + 1]
             stopped == IF invokeStopCallback THEN Invoke(cleared, cbs, "stop") ELSE cleared
         IN  IF completed /\ cbs.hasComplete THEN Invoke(stopped, cbs, "complete")
             ELSE IF ~completed /\ cbs.hasCancel THEN Invoke(stopped, cbs, "cancel")
             ELSE stopped

\* stopMonitoring as it would be if it invoked the callbacks before it
\* unhooked and cleared the fields.
StopOnCallbacksFirst(m, invokeStopCallback, completed) ==
    IF m.callbacks = Null THEN m
    ELSE LET cbs == Val(m.callbacks)
             counted == [m EXCEPT !.stops = @ + 1]
             ended == IF completed /\ cbs.hasComplete THEN Invoke(counted, cbs, "complete")
                      ELSE IF ~completed /\ cbs.hasCancel THEN Invoke(counted, cbs, "cancel")
                      ELSE counted
             stopped == IF invokeStopCallback THEN Invoke(ended, cbs, "stop") ELSE ended
         IN  [stopped EXCEPT !.hooks = {}, !.callbacks = Null]

\* stopMonitoring(invokeStopCallback, completed) on the monitor m: nothing
\* when not monitoring; else unhook, clear the fields, invoke the complete
\* or the cancel callback, then the stop callback if asked to.
StopOn(m, invokeStopCallback, completed) ==
    IF m.callbacks = Null THEN m
    ELSE LET cbs == Val(m.callbacks)
             cleared == [m EXCEPT !.hooks = {}, !.callbacks = Null, !.stops = @ + 1]
             ended == IF completed /\ cbs.hasComplete THEN Invoke(cleared, cbs, "complete")
                      ELSE IF ~completed /\ cbs.hasCancel THEN Invoke(cleared, cbs, "cancel")
                      ELSE cleared
         IN  IF invokeStopCallback THEN Invoke(ended, cbs, "stop") ELSE ended

\* What the last event was and did: its name, the pressed buttons of a
\* mouse-move, the session whose move callback it ran (0 for none), and the
\* callbacks that were stored when it happened.
LastEvent(event, buttons, moved) ==
    [event |-> event, buttons |-> buttons, moved |-> moved, ending |-> monitor.callbacks]

\* A call of startMonitoring from outside a callback.
StartMonitoring(initialButtons, hasCancel, hasComplete, restart) ==
    /\ ~monitor.disposed
    /\ monitor.started < MaxSessions
    /\ monitor' = [StartOn(monitor, initialButtons,
                           Callbacks(monitor.started + 1, hasCancel, hasComplete, restart))
                      EXCEPT !.last = LastEvent("start", 0, 0)]
    /\ UNCHANGED <<chordVars, selectionCommand, hasFocus, executing, lastOp, gesture, recorder>>

\* A call of stopMonitoring from outside a callback.
StopMonitoring(invokeStopCallback, completed) ==
    /\ ~monitor.disposed
    /\ monitor' = [StopOn(monitor, invokeStopCallback, completed)
                      EXCEPT !.last = LastEvent("stop", 0, 0)]
    /\ UNCHANGED <<chordVars, selectionCommand, hasFocus, executing, lastOp, gesture, recorder>>

\* A mouse-move with the pressed buttons buttons: the hooked listener, if
\* any, stops the session when the buttons differ from the initial ones and
\* else runs the move callback.
MonitorMouseMove(buttons) ==
    /\ monitor' =
           IF monitor.hooks = {} THEN [monitor EXCEPT !.last = LastEvent("move", buttons, 0)]
           ELSE IF buttons # monitor.initialButtons
           THEN [StopOn(monitor, TRUE, FALSE) EXCEPT !.last = LastEvent("move", buttons, 0)]
           ELSE [monitor EXCEPT
                    !.last = LastEvent("move", buttons, Val(monitor.callbacks).session)]
    /\ UNCHANGED <<chordVars, selectionCommand, hasFocus, executing, lastOp, gesture, recorder>>

\* A mouse-up ("up"), or the pointer leaving the last same-origin frame
\* ("leave"): the hooked listener, if any, calls stopMonitoring(true, true).
MonitorMouseUp(event) ==
    /\ monitor' =
           IF monitor.hooks = {} THEN [monitor EXCEPT !.last = LastEvent(event, 0, 0)]
           ELSE [StopOn(monitor, TRUE, TRUE) EXCEPT !.last = LastEvent(event, 0, 0)]
    /\ UNCHANGED <<chordVars, selectionCommand, hasFocus, executing, lastOp, gesture, recorder>>

\* dispose(): stopMonitoring(false), then the hooks are disposed. The
\* monitor is not used after it.
MonitorDispose ==
    /\ ~monitor.disposed
    /\ monitor' = [StopOn(monitor, FALSE, FALSE)
                      EXCEPT !.hooks = {}, !.disposed = TRUE,
                             !.last = LastEvent("dispose", 0, 0)]
    /\ UNCHANGED <<chordVars, selectionCommand, hasFocus, executing, lastOp, gesture, recorder>>

MonitorNext ==
    \/ \E hasCancel \in BOOLEAN, hasComplete \in BOOLEAN,
          restart \in {"none", "cancel", "complete", "stop"} :
           StartMonitoring(1, hasCancel, hasComplete, restart)
    \/ \E invokeStopCallback \in BOOLEAN, completed \in BOOLEAN :
           StopMonitoring(invokeStopCallback, completed)
    \/ \E buttons \in {0, 1} : MonitorMouseMove(buttons)
    \/ \E event \in {"up", "leave"} : MonitorMouseUp(event)
    \/ MonitorDispose

MonitorSpec == Init /\ [][MonitorNext]_vars

\* The callbacks of session that have been invoked, in order.
Invoked(session) ==
    LET OfSession(entry) == entry.session = session
        entries == SelectSeq(monitor.log, OfSession)
    IN  [i \in DOMAIN entries |-> entries[i].callback]

\* How often callback name is in the sequence names.
Times(names, name) == Cardinality({i \in DOMAIN names : names[i] = name})

\* C34: for each monitoring session, over any sequence of events, at most
\* one of the complete and cancel callbacks is invoked, at most once; the
\* stop callback is invoked at most once; all of them are invoked by the one
\* call of stopMonitoring that ended the session, none later; and the move
\* callback runs only for the session that is running.
C34_CallbacksOnce ==
    /\ \A session \in 1..MaxSessions :
           /\ Times(Invoked(session), "complete") + Times(Invoked(session), "cancel") <= 1
           /\ Times(Invoked(session), "stop") <= 1
    /\ \A i, j \in DOMAIN monitor.log :
           monitor.log[i].session = monitor.log[j].session =>
               monitor.log[i].stopCall = monitor.log[j].stopCall
    /\ \A i \in DOMAIN monitor.log : monitor.log[i].session \in monitor.begun
    /\ monitor.last.moved # 0 =>
           /\ monitor.callbacks # Null
           /\ Val(monitor.callbacks).session = monitor.last.moved
           /\ Invoked(monitor.last.moved) = <<>>

\* C34 witness: the first session was ended by a mouse-up, which invoked its
\* complete and stop callbacks; a later stopMonitoring(true, false) found no
\* session and invoked nothing more.
C34_Witness ==
    /\ monitor.last.event = "stop"
    /\ monitor.last.ending = Null
    /\ monitor.stops = 1
    /\ Invoked(1) = <<"complete", "stop">>
    /\ Len(monitor.log) = 2

\* The callbacks invoked by the last call of stopMonitoring that ended a
\* session, in order.
InvokedAtEnd ==
    LET AtEnd(entry) == entry.stopCall = monitor.stops
        entries == SelectSeq(monitor.log, AtEnd)
    IN  [i \in DOMAIN entries |-> entries[i].callback]

\* The callback name if it was given, as a sequence.
IfGiven(given, name) == IF given THEN <<name>> ELSE <<>>

\* C35: how a session ends decides which callbacks run. A mouse-up, or the
\* pointer leaving the frame, invokes the complete callback and then the
\* stop callback; a mouse-move whose pressed buttons differ from the initial
\* ones invokes the cancel callback and then the stop callback, and the move
\* callback does not run for it; dispose invokes the cancel callback and not
\* the stop callback. (An optional callback that was not given is skipped;
\* the events are those of a monitor whose listeners are hooked.)
C35_EndDecidesCallback ==
    monitor.last.ending # Null /\ (monitor.disposed => monitor.last.event = "dispose") =>
        LET cbs == Val(monitor.last.ending)
        IN  /\ monitor.last.event \in {"up", "leave"} =>
                   InvokedAtEnd = IfGiven(cbs.hasComplete, "complete") \o <<"stop">>
            /\ monitor.last.event = "move" /\ monitor.last.buttons # 1 =>
                   /\ InvokedAtEnd = IfGiven(cbs.hasCancel, "cancel") \o <<"stop">>
                   /\ monitor.last.moved = 0
            /\ monitor.last.event = "move" /\ monitor.last.buttons = 1 =>
                   /\ monitor.last.moved = cbs.session
                   /\ monitor.callbacks = monitor.last.ending
            /\ monitor.last.event = "dispose" =>
                   InvokedAtEnd = IfGiven(cbs.hasCancel, "cancel")

\* C35 witness: a mouse-move with no button pressed ended the first session,
\* begun with the left button pressed: its cancel callback, then its stop
\* callback were invoked, and the move callback did not run.
C35_Witness ==
    /\ monitor.last.event = "move"
    /\ monitor.last.buttons = 0
    /\ monitor.last.ending # Null
    /\ monitor.last.moved = 0
    /\ Invoked(1) = <<"cancel", "stop">>
    /\ monitor.callbacks = Null

\* C36 as stated: sessions do not overlap. A call of startMonitoring while
\* a session is running changes nothing and invokes nothing, and a call of
\* stopMonitoring while none is running invokes nothing; whenever an
\* end-of-session callback runs isMonitoring() is false, so the callback may
\* start a new session.
C36_AsStated ==
    /\ [](\A i \in DOMAIN monitor.log : monitor.log[i].stored = Null)
    /\ [][/\ monitor'.last.event = "start" /\ monitor'.last.ending # Null =>
                 /\ monitor'.callbacks = monitor.callbacks
                 /\ monitor'.hooks = monitor.hooks
                 /\ monitor'.begun = monitor.begun
                 /\ monitor'.log = monitor.log
          /\ monitor'.last.event = "stop" /\ monitor'.last.ending = Null =>
                 /\ monitor'.log = monitor.log
                 /\ monitor'.callbacks = Null]_vars

\* C36, amended: as stated, but isMonitoring() is false when an
\* end-of-session callback runs only as far as the ended session goes: the
\* callbacks of the ended session are never stored then, and isMonitoring()
\* is true only for the stop callback when the complete or cancel callback
\* that ran before it has started a new session.
C36_NoOverlap ==
    /\ [](\A i \in DOMAIN monitor.log :
              monitor.log[i].stored # Null =>
                  /\ Val(monitor.log[i].stored).session > monitor.log[i].session
                  /\ monitor.log[i].callback = "stop"
                  /\ \E j \in 1..(i - 1) :
                         /\ monitor.log[j].stopCall = monitor.log[i].stopCall
                         /\ monitor.log[j].stored = Null)
    /\ [][/\ monitor'.last.event = "start" /\ monitor'.last.ending # Null =>
                 /\ monitor'.callbacks = monitor.callbacks
                 /\ monitor'.hooks = monitor.hooks
                 /\ monitor'.begun = monitor.begun
                 /\ monitor'.log = monitor.log
          /\ monitor'.last.event = "stop" /\ monitor'.last.ending = Null =>
                 /\ monitor'.log = monitor.log
                 /\ monitor'.callbacks = Null]_vars

\* C36 witness: the complete callback of the first session called
\* startMonitoring, and the session it began is running after the mouse-up
\* that ended the first one; the first session's stop callback ran after it.
C36_Witness ==
    /\ monitor.last.event = "up"
    /\ monitor.last.ending # Null
    /\ Val(monitor.last.ending).session = 1
    /\ Invoked(1) = <<"complete", "stop">>
    /\ monitor.callbacks # Null
    /\ Val(monitor.callbacks).session = 2
    /\ monitor.begun = {1, 2}

(***************************************************************************)
(* KeybindingsSearchWidget: the key recorder. It holds the first part and  *)
(* the chord part of the keybinding being recorded.                        *)
(***************************************************************************)
\* part && part.getDispatchParts()[0] !== null
HasPart(part) == part # Null /\ Val(part).dispatchParts[1] # Null

\* printBinding as it would be if it never started over once both parts
\* are held.
PrintBindingNoReset(r, keybinding) ==
    LET set == IF r.enableChord
               THEN IF ~HasPart(r.firstPart)
                    THEN [r EXCEPT !.firstPart = Some(keybinding)]
                    ELSE [r EXCEPT !.chordPart = Some(keybinding)]
               ELSE [r EXCEPT !.firstPart = Some(keybinding)]
    IN  [set EXCEPT !.history = Append(@, [keybinding |-> keybinding,
                                           enableChord |-> r.enableChord]),
                    !.fired = <<<<set.firstPart, set.chordPart>>>>]

\* printBinding(keybinding, info) on the recorder r; the onKeybinding event
\* is fired with the parts as they are after the assignment.
PrintBinding(r, keybinding) ==
    LET set == IF r.enableChord
               THEN IF HasPart(r.firstPart) /\ HasPart(r.chordPart)
                    THEN [r EXCEPT !.firstPart = Some(keybinding), !.chordPart = Null]
                    ELSE IF ~HasPart(r.firstPart)
                    THEN [r EXCEPT !.firstPart = Some(keybinding)]
                    ELSE [r EXCEPT !.chordPart = Some(keybinding)]
               ELSE [r EXCEPT !.firstPart = Some(keybinding)]
    IN  [set EXCEPT !.history = Append(@, [keybinding |-> keybinding,
                                           enableChord |-> r.enableChord]),
                    !.fired = <<<<set.firstPart, set.chordPart>>>>]

\* _onKeyDown(keyboardEvent) for a key other than Enter and Escape: nothing
\* when only the mouse is recorded or the event is a repeat, else the
\* resolved keybinding is recorded.
RecorderKeyDown(e, repeat) ==
    /\ Len(recorder.history) < MaxRecorded
    /\ recorder' = IF recorder.recordOnlyMouse \/ repeat
                   THEN [recorder EXCEPT !.fired = <<>>]
                   ELSE PrintBinding(recorder, resolveKeyboardEvent(e))
    /\ UNCHANGED <<chordVars, selectionCommand, hasFocus, executing, lastOp, gesture, monitor>>

\* _onMouseUp(mouseEvent): the resolved mouse binding is recorded.
RecorderMouseUp(binding) ==
    /\ Len(recorder.history) < MaxRecorded
    /\ recorder' = PrintBinding(recorder, ResolvedMouseBinding(binding))
    /\ UNCHANGED <<chordVars, selectionCommand, hasFocus, executing, lastOp, gesture, monitor>>

\* clear() and stopRecordingKeys(): _reset() drops both parts.
RecorderReset ==
    /\ recorder' = [recorder EXCEPT !.firstPart = Null, !.chordPart = Null,
                                    !.history = <<>>, !.fired = <<>>]
    /\ UNCHANGED <<chordVars, selectionCommand, hasFocus, executing, lastOp, gesture, monitor>>

\* The owner sets enableChord and recordOnlyMouse.
RecorderSetOptions(enableChord, recordOnlyMouse) ==
    /\ <<enableChord, recordOnlyMouse>> # <<recorder.enableChord, recorder.recordOnlyMouse>>
    /\ recorder' = [recorder EXCEPT !.enableChord = enableChord,
                                    !.recordOnlyMouse = recordOnlyMouse, !.fired = <<>>]
    /\ UNCHANGED <<chordVars, selectionCommand, hasFocus, executing, lastOp, gesture, monitor>>

\* The recorder is handed ctrl+k, ctrl+s, Ctrl pressed alone (no dispatch
\* part) and ctrl+LMB.
RecorderNext ==
    \/ \E e \in {KeyboardEvent(TRUE, FALSE, FALSE, FALSE, k) : k \in {"k", "s", "Ctrl"}},
          repeat \in BOOLEAN : RecorderKeyDown(e, repeat)
    \/ \E binding \in {MouseBinding(TRUE, FALSE, FALSE, FALSE, MouseButtonLeft, 1)} :
           RecorderMouseUp(binding)
    \/ RecorderReset
    \/ \E enableChord \in BOOLEAN, recordOnlyMouse \in BOOLEAN :
           RecorderSetOptions(enableChord, recordOnlyMouse)

RecorderSpec == Init /\ [][RecorderNext]_vars

\* Every binding recorded since the last reset was dispatchable and was
\* recorded with chord recording enabled.
DispatchableChords ==
    \A i \in DOMAIN recorder.history :
        /\ recorder.history[i].enableChord
        /\ recorder.history[i].keybinding.dispatchParts[1] # Null

\* C37: in the key recorder a chord part is held only if a first part is
\* held. After a sequence of dispatchable bindings recorded with chord
\* recording enabled, the parts alternate: the 1st, 3rd, ... binding since
\* the last reset is the first part and no chord part is held, the 2nd,
\* 4th, ... is the chord part beside the binding before it. A binding
\* recorded with chord recording disabled is the first part. Each recorded
\* binding fires exactly one onKeybinding event, with the current pair.
C37_PartsAlternate ==
    /\ [](recorder.chordPart # Null => recorder.firstPart # Null)
    /\ [](LET n == Len(recorder.history)
               Recorded(i) == Some(recorder.history[i].keybinding)
           IN  /\ n > 0 /\ DispatchableChords =>
                      IF n % 2 = 1
                      THEN recorder.firstPart = Recorded(n) /\ recorder.chordPart = Null
                      ELSE /\ recorder.firstPart = Recorded(n - 1)
                           /\ recorder.chordPart = Recorded(n)
               /\ n > 0 /\ ~recorder.history[n].enableChord =>
                      recorder.firstPart = Recorded(n))
    /\ [][recorder'.history # recorder.history /\ recorder'.history # <<>> =>
             recorder'.fired = <<<<recorder'.firstPart, recorder'.chordPart>>>>]_vars

\* C37 witness: four dispatchable bindings recorded with chord recording
\* enabled, the third having started over; the fourth is the chord part.
C37_Witness ==
    /\ Len(recorder.history) = 4
    /\ DispatchableChords
    /\ recorder.chordPart = Some(recorder.history[4].keybinding)
    /\ recorder.firstPart = Some(recorder.history[3].keybinding)
    /\ recorder.history[3].keybinding # recorder.history[1].keybinding
    /\ recorder.fired = <<<<recorder.firstPart, recorder.chordPart>>>>

\* C38: the mouse-button string encodings round-trip: for every button b,
\* fromString(toString(b)) = b, fromAriaString(toAriaString(b)) = b and
\* fromUserSettingsString(toUserSettingsString(b)) = b.
C38_ButtonStringsRoundTrip ==
    Compared =>
        /\ lastOp.strings.fromString = Some(lastOp.b1.button)
        /\ lastOp.strings.fromAriaString = Some(lastOp.b1.button)
        /\ lastOp.strings.fromUserSettingsString = Some(lastOp.b1.button)

====
